---- MODULE Spec2Model ----
(***************************************************************************)
(* Operational-closure core of the NIoLS laser emitter: the finite state   *)
(* machine of software/core/fsm.py over the session context of             *)
(* software/core/context.py, its guard predicates                          *)
(* (software/core/predicates.py), the hash-chained trace writer            *)
(* (software/core/trace.py) and the control surface                        *)
(* (software/api_server.py) that drives them and the laser port.           *)
(*                                                                         *)
(* Optional values (Python None) are sequences: None is <<>> and a value v *)
(* is <<v>>.  Monotonic time is counted in whole seconds; the code's       *)
(* "* 1000.0" conversions to milliseconds are kept.  A SHA-256 digest is   *)
(* modelled as a collision-free constructor over the hashed text.          *)
(***************************************************************************)
EXTENDS Integers, Sequences, FiniteSets, TLC

VARIABLES
    ctx,         \* SessionContext (context.py)
    writer,      \* FSM.trace_writer: None, or the TraceWriter (sequence, prev_hash)
    trace_file,  \* the records appended to trace.jsonl, header excluded
    now,         \* time.monotonic(), in seconds
    result,      \* what the last FSM.transition call gave back to its caller
    app_state,   \* AppState (api_server.py): which of its parts have been created
    port_call,   \* the last laser-port call that can emit light, with the FSM state
                 \* it was made in; None before the first
    disk_full,   \* whether appending to trace.jsonl raises OSError
    frames       \* the frame of each thread's FSM.transition call: where the call
                 \* is and its local variables

vars == <<ctx, writer, trace_file, now, result, app_state, port_call, disk_full, frames>>

(***************************************************************************)
(* Bounds of the model.                                                    *)
(***************************************************************************)
MaxRecords == 4

(***************************************************************************)
(* Program constants.                                                      *)
(***************************************************************************)
arming_window_duration_ms == 5000
DefaultMaxContinuousTime == 3600
DefaultCooldownTime == 60
max_duty_percent == 100

None == <<>>
Some(v) == <<v>>
Val(o) == o[1]

Max(a, b) == IF a >= b THEN a ELSE b

Range(s) == {s[i] : i \in DOMAIN s}

\* dict.get(key, default)
Get(d, k, default) == IF k \in DOMAIN d THEN d[k] ELSE default

(***************************************************************************)
(* FSMState, FSMEvent and FSM.TRANSITION_TABLE.                            *)
(***************************************************************************)
FSMState == {"SAFE", "INITIALIZED", "ARMED", "EMIT_READY", "EMITTING", "FAULT"}

FSMEvent == {"INITIALIZE", "ARM", "ARM_CONFIRM", "EMIT_REQUEST", "EMIT_COMPLETE",
             "STOP", "RESET", "FAULT"}

Edge(to, preds) == [to |-> to, preds |-> preds]

\* a mistaken table whose STOP out of ARMED asks the interlock first
OperatingEdges_stop_guarded ==
    (<<"SAFE", "INITIALIZE">> :> Edge("INITIALIZED",
        <<"check_config_valid", "check_calibration_valid",
          "check_dependencies_ok", "check_hardware_health">>))
    @@ (<<"INITIALIZED", "ARM">> :> Edge("ARMED",
        <<"check_interlock_safe", "check_no_outstanding_faults",
          "check_cooldown_satisfied">>))
    @@ (<<"ARMED", "ARM_CONFIRM">> :> Edge("EMIT_READY",
        <<"check_arm_confirmation_within_window">>))
    @@ (<<"EMIT_READY", "EMIT_REQUEST">> :> Edge("EMITTING",
        <<"check_budget_available", "check_interlock_safe">>))
    @@ (<<"EMITTING", "EMIT_COMPLETE">> :> Edge("EMIT_READY", <<>>))
    @@ (<<"EMITTING", "STOP">> :> Edge("EMIT_READY", <<>>))
    @@ (<<"EMIT_READY", "STOP">> :> Edge("ARMED", <<>>))
    @@ (<<"ARMED", "STOP">> :> Edge("INITIALIZED", <<"check_interlock_safe">>))
    @@ (<<"INITIALIZED", "STOP">> :> Edge("SAFE", <<>>))

\* the edges of normal operation: the guarded ascent and the STOP descent
OperatingEdges ==
    (<<"SAFE", "INITIALIZE">> :> Edge("INITIALIZED",
        <<"check_config_valid", "check_calibration_valid",
          "check_dependencies_ok", "check_hardware_health">>))
    @@ (<<"INITIALIZED", "ARM">> :> Edge("ARMED",
        <<"check_interlock_safe", "check_no_outstanding_faults",
          "check_cooldown_satisfied">>))
    @@ (<<"ARMED", "ARM_CONFIRM">> :> Edge("EMIT_READY",
        <<"check_arm_confirmation_within_window">>))
    @@ (<<"EMIT_READY", "EMIT_REQUEST">> :> Edge("EMITTING",
        <<"check_budget_available", "check_interlock_safe">>))
    @@ (<<"EMITTING", "EMIT_COMPLETE">> :> Edge("EMIT_READY", <<>>))
    @@ (<<"EMITTING", "STOP">> :> Edge("EMIT_READY", <<>>))
    @@ (<<"EMIT_READY", "STOP">> :> Edge("ARMED", <<>>))
    @@ (<<"ARMED", "STOP">> :> Edge("INITIALIZED", <<>>))
    @@ (<<"INITIALIZED", "STOP">> :> Edge("SAFE", <<>>))

\* a mistaken table in which STOP also leaves FAULT
RecoveryEdges_stop_leaves_fault ==
    (<<"FAULT", "RESET">> :> Edge("SAFE", <<>>))
    @@ (<<"FAULT", "STOP">> :> Edge("SAFE", <<>>))

\* FAULT -> SAFE (via RESET)
RecoveryEdges == (<<"FAULT", "RESET">> :> Edge("SAFE", <<>>))

\* a mistaken table that lets a FAULT event re-enter FAULT
FaultEdges_from_every_state ==
    (<<"SAFE", "FAULT">> :> Edge("FAULT", <<>>))
    @@ (<<"INITIALIZED", "FAULT">> :> Edge("FAULT", <<>>))
    @@ (<<"ARMED", "FAULT">> :> Edge("FAULT", <<>>))
    @@ (<<"EMIT_READY", "FAULT">> :> Edge("FAULT", <<>>))
    @@ (<<"EMITTING", "FAULT">> :> Edge("FAULT", <<>>))
    @@ (<<"FAULT", "FAULT">> :> Edge("FAULT", <<>>))

\* ANY -> FAULT (via FAULT event)
FaultEdges ==
    (<<"SAFE", "FAULT">> :> Edge("FAULT", <<>>))
    @@ (<<"INITIALIZED", "FAULT">> :> Edge("FAULT", <<>>))
    @@ (<<"ARMED", "FAULT">> :> Edge("FAULT", <<>>))
    @@ (<<"EMIT_READY", "FAULT">> :> Edge("FAULT", <<>>))
    @@ (<<"EMITTING", "FAULT">> :> Edge("FAULT", <<>>))

TRANSITION_TABLE == OperatingEdges @@ RecoveryEdges @@ FaultEdges

IsLegal(state, event) == <<state, event>> \in DOMAIN TRANSITION_TABLE

(***************************************************************************)
(* Budget (context.py).  Fields in milliseconds / percent; last_emit_end   *)
(* is an optional monotonic instant.                                       *)
(***************************************************************************)
Budget(emit_ms, duty, cooldown_ms, last_end) ==
    [remaining_emit_ms |-> emit_ms,
     remaining_duty_percent |-> duty,
     cooldown_remaining_ms |-> cooldown_ms,
     last_emit_end_time |-> last_end]

update_cooldown(b, current_time, cooldown_time_ms) ==
    IF b.last_emit_end_time = None
    THEN [b EXCEPT !.cooldown_remaining_ms = 0]
    ELSE LET elapsed_ms == (current_time - Val(b.last_emit_end_time)) * 1000
         IN  [b EXCEPT !.cooldown_remaining_ms = Max(0, cooldown_time_ms - elapsed_ms)]

\* a debit that forgets the floor at zero
consume_emit_time_unclamped(b, duration_ms) ==
    [b EXCEPT !.remaining_emit_ms = b.remaining_emit_ms - duration_ms]

consume_emit_time(b, duration_ms) ==
    [b EXCEPT !.remaining_emit_ms = Max(0, b.remaining_emit_ms - duration_ms)]

consume_duty_cycle(b, duty_percent) ==
    [b EXCEPT !.remaining_duty_percent = Max(0, b.remaining_duty_percent - duty_percent)]

record_emit_end(b, current_time) ==
    [b EXCEPT !.last_emit_end_time = Some(current_time)]

(***************************************************************************)
(* SessionContext (context.py).  A configuration document is a record of   *)
(* its top-level sections; a section is None (YAML null) or Some(record).  *)
(***************************************************************************)
SessionContext(config, config_hash, calibration, cal_hash, health_monitor, laser_controller, simulation_mode) ==
    [session_id |-> "session",
     state |-> "SAFE",
     config_hash |-> config_hash,
     cal_hash |-> cal_hash,
     config |-> config,
     calibration |-> calibration,
     budget |-> None,
     arming_window_start |-> None,
     simulation_mode |-> simulation_mode,
     fault_reason |-> None,
     health_monitor |-> health_monitor,
     laser_controller |-> laser_controller]

\* config.get('safety', {}) ; raises AttributeError later when the section is null
SafetySectionUsable(config) ==
    "safety" \notin DOMAIN config \/ config.safety # None

SafetySection(config) ==
    IF "safety" \in DOMAIN config THEN Val(config.safety) ELSE <<>>

\* a dict is truthy when it is not empty
Truthy(config) == config # None /\ DOMAIN Val(config) # {}

\* initialize_budget raises when config['safety'] is not a mapping
initialize_budget_raises(c) == ~SafetySectionUsable(Val(c.config))

initialize_budget(c) ==
    LET safety == SafetySection(Val(c.config))
        max_continuous_time_s == Get(safety, "max_continuous_time", DefaultMaxContinuousTime)
    IN  [c EXCEPT !.budget =
            Some(Budget(max_continuous_time_s * 1000, max_duty_percent, 0, None))]

\* a window check that still accepts a confirmation exactly at the window's end
is_arming_window_valid_inclusive(c, current_time) ==
    IF c.arming_window_start = None
    THEN FALSE
    ELSE (current_time - Val(c.arming_window_start)) * 1000 <= arming_window_duration_ms

is_arming_window_valid(c, current_time) ==
    IF c.arming_window_start = None
    THEN FALSE
    ELSE (current_time - Val(c.arming_window_start)) * 1000 < arming_window_duration_ms

\* an arming that also rebinds the configuration hash to the snapshot it holds
start_arming_window_rebinds(c, current_time) ==
    [c EXCEPT !.arming_window_start = Some(current_time),
              !.config_hash = Some("rebound")]

\* an arming that stamps the start of the clock instead of the current instant
start_arming_window_at_zero(c, current_time) ==
    [c EXCEPT !.arming_window_start = Some(0)]

start_arming_window(c, current_time) ==
    [c EXCEPT !.arming_window_start = Some(current_time)]

clear_arming_window(c) == [c EXCEPT !.arming_window_start = None]

(***************************************************************************)
(* PredicateEvaluator (predicates.py).  env holds what the ports answer    *)
(* when a guard asks them: deps_ok (check_dependencies status healthy),    *)
(* hw_healthy (no check reports error or critical), interlock_safe.        *)
(***************************************************************************)
PortAnswers == [deps_ok : BOOLEAN, hw_healthy : BOOLEAN, interlock_safe : BOOLEAN]

check_config_valid(c) ==
    /\ c.config # None
    /\ c.config_hash # None
    /\ \A section \in {"hardware", "safety"} : section \in DOMAIN Val(c.config)

\* a calibration check that takes a table of any length
check_calibration_valid_any_points(c) ==
    /\ c.calibration # None
    /\ c.cal_hash # None

check_calibration_valid(c) ==
    /\ c.calibration # None
    /\ c.cal_hash # None
    /\ Len(Get(Val(c.calibration), "points", <<>>)) >= 2

check_dependencies_ok(c, env) ==
    IF ~c.health_monitor THEN FALSE ELSE env.deps_ok

check_interlock_safe(c, env) ==
    IF ~c.laser_controller THEN c.simulation_mode ELSE env.interlock_safe

check_no_outstanding_faults(c) == c.state # "FAULT"

\* config = context.config or {} ; safety = config.get('safety', {})
CooldownConfig(c) == IF c.config = None THEN <<>> ELSE Val(c.config)

cooldown_time_ms(c) ==
    Get(SafetySection(CooldownConfig(c)), "cooldown_time", DefaultCooldownTime) * 1000

\* the guard raises (and FSM.transition counts it as failed) when safety is null
check_cooldown_raises(c) == c.budget # None /\ ~SafetySectionUsable(CooldownConfig(c))

\* check_cooldown_satisfied writes budget.cooldown_remaining_ms before it reads it
CooldownUpdated(c, current_time) ==
    IF c.budget = None \/ check_cooldown_raises(c)
    THEN c
    ELSE [c EXCEPT !.budget =
            Some(update_cooldown(Val(c.budget), current_time, cooldown_time_ms(c)))]

check_cooldown_satisfied(c, current_time) ==
    /\ c.budget # None
    /\ ~check_cooldown_raises(c)
    /\ Val(CooldownUpdated(c, current_time).budget).cooldown_remaining_ms <= 0

\* a confirmation check that only asks whether a window was ever stamped
check_arm_confirmation_stamp_only(c, current_time) ==
    c.arming_window_start # None

check_arm_confirmation_within_window(c, current_time) ==
    /\ c.arming_window_start # None
    /\ is_arming_window_valid(c, current_time)

\* a budget check that wants strictly more than is asked for
check_budget_available_strict(c, required_emit_ms, required_duty_percent) ==
    /\ c.budget # None
    /\ Val(c.budget).remaining_emit_ms > required_emit_ms
    /\ Val(c.budget).remaining_duty_percent > required_duty_percent

check_budget_available(c, required_emit_ms, required_duty_percent) ==
    /\ c.budget # None
    /\ Val(c.budget).remaining_emit_ms >= required_emit_ms
    /\ Val(c.budget).remaining_duty_percent >= required_duty_percent

check_hardware_health(c, env) ==
    IF ~c.health_monitor THEN c.simulation_mode ELSE env.hw_healthy

\* the dispatch of FSM.transition: getattr(self.predicate_evaluator, pred_name)
EvalPredicate(pred_name, c, event_data, env, current_time) ==
    CASE pred_name = "check_config_valid" -> check_config_valid(c)
      [] pred_name = "check_calibration_valid" -> check_calibration_valid(c)
      [] pred_name = "check_dependencies_ok" -> check_dependencies_ok(c, env)
      [] pred_name = "check_hardware_health" -> check_hardware_health(c, env)
      [] pred_name = "check_interlock_safe" -> check_interlock_safe(c, env)
      [] pred_name = "check_no_outstanding_faults" -> check_no_outstanding_faults(c)
      [] pred_name = "check_cooldown_satisfied" -> check_cooldown_satisfied(c, current_time)
      [] pred_name = "check_arm_confirmation_within_window" ->
            check_arm_confirmation_within_window(c, current_time)
      [] pred_name = "check_budget_available" ->
            check_budget_available(c, Get(event_data, "required_emit_ms", 0),
                                   Get(event_data, "required_duty_percent", 0))

\* a guard loop that stops at the first guard that fails
predicate_results_first_failure(required_predicates, c, event_data, env, current_time) ==
    LET failing == {i \in DOMAIN required_predicates :
                      ~EvalPredicate(required_predicates[i], c, event_data, env,
                                     current_time)}
        last == IF failing = {} THEN Len(required_predicates)
                ELSE CHOOSE i \in failing : \A j \in failing : i <= j
    IN  [i \in 1..last |->
            [name |-> required_predicates[i],
             passed |-> EvalPredicate(required_predicates[i], c, event_data, env,
                                      current_time)]]

\* predicate_results, in the order of required_predicates
predicate_results(required_predicates, c, event_data, env, current_time) ==
    [i \in DOMAIN required_predicates |->
        [name |-> required_predicates[i],
         passed |-> EvalPredicate(required_predicates[i], c, event_data, env, current_time)]]

all_predicates_pass(results) == \A i \in DOMAIN results : results[i].passed

\* [k for k, v in predicate_results.items() if not v.get('passed', False)]
FailedNames(results) ==
    LET failed == SelectSeq(results, LAMBDA r : ~r.passed)
    IN  [i \in DOMAIN failed |-> failed[i].name]

\* the context after the guards ran (only check_cooldown_satisfied writes to it)
AfterGuards(required_predicates, c, current_time) ==
    IF "check_cooldown_satisfied" \in Range(required_predicates)
    THEN CooldownUpdated(c, current_time)
    ELSE c

(***************************************************************************)
(* TraceWriter (trace.py).  A world is the context together with the trace *)
(* writer, the trace file and what the last call returned.                 *)
(***************************************************************************)
ZeroHash == <<"0">>

_canonical_json(record) == <<"json", record>>

_compute_hash(data) == <<"sha256", data>>

TraceWriter == [sequence |-> 0, prev_hash |-> None]

\* a line of trace.jsonl that json.loads rejects; a line torn by a crash in the
\* middle of f.write has no newline yet
Unparseable(text, newline) == [unparseable |-> text, newline |-> newline]

Parseable(line) == "unparseable" \notin DOMAIN line

\* open(self.trace_file, 'a') and f.write(line + '\n'): the text lands right
\* after the last byte of the file, on the last line when that one has no newline
AppendLine(file, line) ==
    IF file # <<>> /\ ~Get(file[Len(file)], "newline", TRUE)
    THEN [file EXCEPT ![Len(file)] = Unparseable(<<@.unparseable, line>>, TRUE)]
    ELSE Append(file, line)

\* TraceWriter._load_last_hash: the lines after the header from the last one
\* back, passing over those that do not parse and those without a hash
RECURSIVE _load_last_hash(_, _)
_load_last_hash(lines, i) ==
    IF i = 0
    THEN [sequence |-> 0, prev_hash |-> None]
    ELSE IF Parseable(lines[i]) /\ "hash" \in DOMAIN lines[i]
         THEN [sequence |-> Get(lines[i], "seq", 0), prev_hash |-> Some(lines[i].hash)]
         ELSE _load_last_hash(lines, i - 1)

\* TraceWriter(trace_file, session_id) on a file that exists
TraceWriter__init__(file) == _load_last_hash(file, Len(file))

\* the record without its hash field; timestamps are left out of the model
RecordBody(seq, prev_hash, event_type, state_from, state_to, predicates, event_data, config_hash, cal_hash) ==
    [seq |-> seq,
     prev_hash |-> prev_hash,
     event_type |-> event_type,
     session_id |-> "session",
     state_from |-> state_from,
     state_to |-> state_to,
     predicates |-> predicates,
     event_data |-> event_data,
     config_hash |-> config_hash,
     cal_hash |-> cal_hash]

WithHash(body, hash) ==
    [seq |-> body.seq, prev_hash |-> body.prev_hash, event_type |-> body.event_type,
     session_id |-> body.session_id, state_from |-> body.state_from,
     state_to |-> body.state_to, predicates |-> body.predicates,
     event_data |-> body.event_data, config_hash |-> body.config_hash,
     cal_hash |-> body.cal_hash, hash |-> hash]

\* a writer that never remembers the hash of the record it wrote
write_record_unchained(w, event_type, state_from, state_to, predicates, event_data, config_hash, cal_hash) ==
    LET self == Val(w.writer)
        sequence == self.sequence + 1
        body == RecordBody(sequence, ZeroHash, event_type, state_from, state_to,
                           predicates, event_data, config_hash, cal_hash)
        record_hash == _compute_hash(_canonical_json(body))
    IN  IF w.disk_full
        THEN [w EXCEPT !.writer = Some([self EXCEPT !.sequence = sequence])]
        ELSE [w EXCEPT !.writer = Some([self EXCEPT !.sequence = sequence]),
                       !.file = AppendLine(w.file, WithHash(body, record_hash))]

write_record(w, event_type, state_from, state_to, predicates, event_data, config_hash, cal_hash) ==
    LET self == Val(w.writer)
        sequence == self.sequence + 1
        body == RecordBody(sequence,
                           IF self.prev_hash = None THEN ZeroHash
                           ELSE Val(self.prev_hash),
                           event_type, state_from, state_to, predicates,
                           event_data, config_hash, cal_hash)
        record_hash == _compute_hash(_canonical_json(body))
    IN  IF w.disk_full
        THEN \* the append raises after "self.sequence += 1" and before
             \* "self.prev_hash = record_hash"; every caller logs and goes on
             [w EXCEPT !.writer = Some([self EXCEPT !.sequence = sequence])]
        ELSE [w EXCEPT !.writer = Some([sequence |-> sequence,
                                        prev_hash |-> Some(record_hash)]),
                       !.file = AppendLine(w.file, WithHash(body, record_hash))]

\* api_server.trace_transition_callback, the trace_writer handed to the FSM
trace_transition_callback(w, transition_info) ==
    LET event_type == IF transition_info.fault_reason # None
                      THEN "FAULT" ELSE "STATE_TRANSITION"
    IN  write_record(w, event_type, transition_info.from_state,
                     transition_info.to_state, transition_info.predicates,
                     transition_info.event_data, w.ctx.config_hash, w.ctx.cal_hash)

(***************************************************************************)
(* TraceReader (trace.py).  A loaded record is a dict: a function from the *)
(* keys present in its line to their values.                               *)
(***************************************************************************)
HashError(seq, error) == [seq |-> seq, error |-> error]

\* TraceReader._load_records: the lines after the header that parse
_load_records(file) == SelectSeq(file, Parseable)

\* the loop of TraceReader.verify_chain from record i on; prev_hash is the hash
\* STORED in the record before, None before the first record and after a record
\* that stores none
RECURSIVE verify_records(_, _, _)
verify_records(records, i, prev_hash) ==
    IF i > Len(records)
    THEN <<>>
    ELSE LET record == records[i]
             seq == Get(record, "seq", i)
             record_prev_hash == Get(record, "prev_hash", None)
             record_hash == Get(record, "hash", None)
             record_without_hash == [k \in DOMAIN record \ {"hash"} |-> record[k]]
             computed_hash == _compute_hash(_canonical_json(record_without_hash))
             prev_errors ==
                 IF prev_hash # None /\ record_prev_hash # prev_hash
                 THEN \* the message slices record_prev_hash: TypeError on None
                      IF record_prev_hash = None
                      THEN <<HashError(seq, "TypeError")>>
                      ELSE <<HashError(seq, "prev_hash mismatch")>>
                 ELSE <<>>
             hash_errors ==
                 IF record_hash # None /\ computed_hash # record_hash
                 THEN <<HashError(seq, "hash mismatch")>>
                 ELSE <<>>
         IN  prev_errors \o hash_errors \o verify_records(records, i + 1, record_hash)

verify_chain(records) ==
    LET errors == verify_records(records, 1, None)
    IN  IF \E n \in DOMAIN errors : errors[n].error = "TypeError"
        THEN [kind |-> "raised", is_valid |-> FALSE, errors |-> <<>>]
        ELSE [kind |-> "returned", is_valid |-> errors = <<>>, errors |-> errors]

\* what an editor of trace.jsonl can do to one record: change a field (the
\* state_to := "TAMPERED" of the tampering test, or the stored hash), add a
\* field, remove a field
RemoveField(record, key) == [k \in DOMAIN record \ {key} |-> record[k]]

ContentAlterations(record) ==
    {[record EXCEPT !.state_to = "TAMPERED"],
     record @@ ("note" :> "added"),
     RemoveField(record, "state_to")}

Alterations(record) ==
    ContentAlterations(record)
    \cup {[record EXCEPT !.hash = ZeroHash],
          RemoveField(record, "hash"),
          RemoveField(record, "prev_hash")}

(***************************************************************************)
(* FSM (fsm.py).  FSM(context, trace_writer=None): the trace writer is     *)
(* optional, and "if self.trace_writer:" guards every call of it.          *)
(***************************************************************************)
WriteTrace(w, transition_info) ==
    IF w.writer = None THEN w ELSE trace_transition_callback(w, transition_info)

Returned(event, message) == [kind |-> "returned", event |-> event, message |-> message]

Raised(event) == [kind |-> "FSMError", event |-> event, message |-> "Illegal transition"]

PredicateFailures(results) ==
    [tag |-> "Predicate failures", names |-> FailedNames(results)]

ExecutionError == [tag |-> "Transition execution error", names |-> <<>>]

\* a diversion to FAULT that leaves no record in the trace
_transition_to_fault_untraced(w, reason, results) ==
    [w EXCEPT !.ctx.state = "FAULT", !.ctx.fault_reason = Some(reason),
              !.result = Returned("FAULT", "Fault")]

\* a diversion to FAULT that also makes the session safe: it disarms the window
\* and withdraws the budget
_transition_to_fault_disarms(w, reason, results) ==
    LET from_state == w.ctx.state
        faulted == [w EXCEPT !.ctx.state = "FAULT", !.ctx.fault_reason = Some(reason),
                             !.ctx.arming_window_start = None, !.ctx.budget = None]
        transition_info == [from_state |-> from_state, to_state |-> "FAULT",
                            event |-> "FAULT", fault_reason |-> Some(reason),
                            predicates |-> results, event_data |-> None]
    IN  [WriteTrace(faulted, transition_info) EXCEPT !.result = Returned("FAULT", "Fault")]

_transition_to_fault(w, reason, results) ==
    LET from_state == w.ctx.state
        faulted == [w EXCEPT !.ctx.state = "FAULT", !.ctx.fault_reason = Some(reason)]
        transition_info == [from_state |-> from_state, to_state |-> "FAULT",
                            event |-> "FAULT", fault_reason |-> Some(reason),
                            predicates |-> results, event_data |-> None]
    IN  [WriteTrace(faulted, transition_info) EXCEPT !.result = Returned("FAULT", "Fault")]

\* side effects that stamp the end of the emission on every entry into
\* EMIT_READY, whatever the event
_execute_side_effects_stamps_on_ready(c, to_state, event, event_data, current_time) ==
    LET c1 == IF to_state = "INITIALIZED" /\ Truthy(c.config)
              THEN initialize_budget(c) ELSE c
        c2 == IF to_state = "ARMED" THEN start_arming_window(c1, current_time) ELSE c1
        c3 == IF to_state = "EMIT_READY" THEN clear_arming_window(c2) ELSE c2
        emit_duration_ms == Get(event_data, "emit_duration_ms", 0)
        duty_percent == Get(event_data, "duty_percent", 0)
        b3 == Val(c3.budget)
        b4 == IF emit_duration_ms > 0 THEN consume_emit_time(b3, emit_duration_ms) ELSE b3
        b5 == IF duty_percent > 0 THEN consume_duty_cycle(b4, duty_percent) ELSE b4
        c5 == IF to_state = "EMITTING" /\ c3.budget # None
              THEN [c3 EXCEPT !.budget = Some(b5)] ELSE c3
    IN  IF to_state = "EMIT_READY" /\ c5.budget # None
        THEN [c5 EXCEPT !.budget = Some(record_emit_end(Val(c5.budget), current_time))]
        ELSE c5

\* the side effects of entering to_state, hooks apart (none is registered)
_execute_side_effects(c, to_state, event, event_data, current_time) ==
    LET c1 == IF to_state = "INITIALIZED" /\ Truthy(c.config)
              THEN initialize_budget(c) ELSE c
        c2 == IF to_state = "ARMED" THEN start_arming_window(c1, current_time) ELSE c1
        c3 == IF to_state = "EMIT_READY" THEN clear_arming_window(c2) ELSE c2
        emit_duration_ms == Get(event_data, "emit_duration_ms", 0)
        duty_percent == Get(event_data, "duty_percent", 0)
        b3 == Val(c3.budget)
        b4 == IF emit_duration_ms > 0 THEN consume_emit_time(b3, emit_duration_ms) ELSE b3
        b5 == IF duty_percent > 0 THEN consume_duty_cycle(b4, duty_percent) ELSE b4
        c5 == IF to_state = "EMITTING" /\ c3.budget # None
              THEN [c3 EXCEPT !.budget = Some(b5)] ELSE c3
    IN  IF event = "EMIT_COMPLETE" /\ c5.budget # None
        THEN [c5 EXCEPT !.budget = Some(record_emit_end(Val(c5.budget), current_time))]
        ELSE c5

side_effects_raise(c, to_state) ==
    to_state = "INITIALIZED" /\ Truthy(c.config) /\ initialize_budget_raises(c)

_execute_transition(w, from_state, to_state, event, event_data, results, current_time) ==
    LET entered == [w EXCEPT !.ctx.state = to_state]
    IN  IF side_effects_raise(entered.ctx, to_state)
        THEN _transition_to_fault(entered, ExecutionError, <<>>)
        ELSE LET done == [entered EXCEPT !.ctx =
                            _execute_side_effects(entered.ctx, to_state, event,
                                                  event_data, current_time)]
                 transition_info == [from_state |-> from_state, to_state |-> to_state,
                                     event |-> event, fault_reason |-> None,
                                     predicates |-> results,
                                     event_data |-> Some(event_data)]
             IN  [WriteTrace(done, transition_info)
                    EXCEPT !.result = Returned(event, "Transitioned")]

\* an illegal pair handled as a fault instead of being refused
illegal_transition_faults(w, event) ==
    _transition_to_fault(w, [tag |-> "Illegal transition", names |-> <<>>], <<>>)

\* raise FSMError: nothing is written
illegal_transition(w, event) == [w EXCEPT !.result = Raised(event)]

transition(w, event, event_data, env, current_time) ==
    LET from_state == w.ctx.state
    IN  IF ~IsLegal(from_state, event)
        THEN illegal_transition(w, event)
        ELSE LET to_state == TRANSITION_TABLE[<<from_state, event>>].to
                 required_predicates == TRANSITION_TABLE[<<from_state, event>>].preds
                 results == predicate_results(required_predicates, w.ctx, event_data,
                                              env, current_time)
                 guarded == [w EXCEPT !.ctx =
                                AfterGuards(required_predicates, w.ctx, current_time)]
             IN  IF ~all_predicates_pass(results) /\ to_state # "SAFE"
                 THEN _transition_to_fault(guarded, PredicateFailures(results), results)
                 ELSE _execute_transition(guarded, from_state, to_state, event,
                                          event_data, results, current_time)

(***************************************************************************)
(* Sessions: the contexts an FSM is constructed over, and the event data   *)
(* its callers supply.                                                     *)
(***************************************************************************)
CooldownTimes == {2}

ConfigDoc(cooldown_time) ==
    [hardware |-> Some(<<>>),
     safety |-> Some([max_continuous_time |-> 1, cooldown_time |-> cooldown_time])]

ConfigNoSafety == [hardware |-> Some(<<>>)]

ConfigNullSafety == [hardware |-> Some(<<>>), safety |-> None]

Calibration(n) ==
    [points |-> [i \in 1..n |-> [wavelength |-> 400 + i, voltage |-> i]],
     dark_voltage |-> 0]

BoundSession(config) ==
    SessionContext(Some(config), Some("config_hash"), Some(Calibration(2)),
                   Some("cal_hash"), TRUE, TRUE, FALSE)

Sessions ==
    {BoundSession(ConfigDoc(cooldown_time)) : cooldown_time \in CooldownTimes}
    \cup {BoundSession(ConfigNoSafety), BoundSession(ConfigNullSafety)}
    \cup {SessionContext(None, None, None, None, FALSE, FALSE, FALSE),
          SessionContext(Some(ConfigDoc(0)), None, None, None, TRUE, TRUE, FALSE),
          SessionContext(Some(ConfigDoc(0)), Some("config_hash"), Some(Calibration(1)),
                         Some("cal_hash"), TRUE, TRUE, FALSE)}

EmitRequest(required_emit_ms, required_duty_percent, emit_duration_ms, duty_percent) ==
    [required_emit_ms |-> required_emit_ms,
     required_duty_percent |-> required_duty_percent,
     emit_duration_ms |-> emit_duration_ms,
     duty_percent |-> duty_percent]

\* requests that fit the budget once or twice and exhaust it exactly, a request
\* whose debit is not the amount its guard checks, a negative one, and no data
RequestData ==
    {EmitRequest(400, 40, 400, 40), EmitRequest(600, 50, 600, 50),
     EmitRequest(0, 0, 1200, 150), EmitRequest(-100, -10, -100, -10), <<>>}

\* event_data is read by the guards and side effects of a listed edge only
EventData(c, event) ==
    IF event # "EMIT_REQUEST" THEN {<<>>}
    ELSE IF IsLegal(c.state, event) THEN RequestData
    ELSE {EmitRequest(400, 40, 400, 40)}

\* the answers that matter: a port that no guard of the edge asks answers TRUE
PortsAsked(c, event) ==
    LET asked == IF IsLegal(c.state, event)
                 THEN Range(TRANSITION_TABLE[<<c.state, event>>].preds) ELSE {}
    IN  {env \in PortAnswers :
            /\ ("check_dependencies_ok" \notin asked \/ ~c.health_monitor) => env.deps_ok
            /\ ("check_hardware_health" \notin asked \/ ~c.health_monitor) => env.hw_healthy
            /\ ("check_interlock_safe" \notin asked \/ ~c.laser_controller)
                    => env.interlock_safe}

\* the clock readings of a run, in seconds: they put an elapsed time on each side
\* of the cooldown time and on each side of, and exactly at, the arming window
Instants == {0, 2, 5}

World == [ctx |-> ctx, writer |-> writer, file |-> trace_file, result |-> result, disk_full |-> disk_full]

NoResult == [kind |-> "none", event |-> "", message |-> ""]

\* the threads that can call FSM.transition, and no call in progress
Threads == {1, 2}

NoFrames == [th \in Threads |-> [pc |-> "idle"]]

\* AppState(): no FSM, no laser controller and no photodiode reader yet
NoApp ==
    [fsm |-> FALSE, laser_controller |-> FALSE, photodiode_reader |-> None,
     session_bundle |-> FALSE, manifest |-> None, shut_down |-> FALSE]

Init ==
    /\ ctx \in Sessions
    /\ writer \in {None, Some(TraceWriter)}
    /\ trace_file = <<>>
    /\ now = 0
    /\ result = NoResult
    /\ app_state = NoApp
    /\ port_call = None
    /\ disk_full = FALSE
    /\ frames = NoFrames

\* one call of FSM.transition by the FSM's owner
FsmTransition ==
    \E event \in FSMEvent :
      \E event_data \in EventData(ctx, event), env \in PortsAsked(ctx, event) :
        LET w == transition(World, event, event_data, env, now)
        IN  /\ IF writer = None \/ ~IsLegal(ctx.state, event) THEN TRUE ELSE Val(writer).sequence < MaxRecords
            /\ ctx' = w.ctx
            /\ writer' = w.writer
            /\ trace_file' = w.file
            /\ result' = w.result
            /\ UNCHANGED <<now, app_state, port_call, disk_full, frames>>

\* the monotonic clock advances to a later instant
Tick ==
    /\ now' \in {t \in Instants : t > now}
    /\ UNCHANGED <<ctx, writer, trace_file, result, app_state, port_call, disk_full, frames>>

Next == FsmTransition \/ Tick

Spec == Init /\ [][Next]_vars

(***************************************************************************)
(* The traced FSM over the session of the end-to-end scenarios:            *)
(* safety.max_continuous_time = 1.0, safety.cooldown_time = 0.0, and       *)
(* emission requests of 100 ms at 10 % and of 300 ms at 10 %.              *)
(***************************************************************************)
MaxScenarioRecords == 5

ScenarioConfig == ConfigDoc(0)

ScenarioData(c, event) ==
    IF event = "EMIT_REQUEST"
    THEN {EmitRequest(100, 10, 100, 10), EmitRequest(300, 10, 300, 10)}
    ELSE {<<>>}

InitScenario ==
    /\ ctx = BoundSession(ScenarioConfig)
    /\ writer = Some(TraceWriter)
    /\ trace_file = <<>>
    /\ now = 0
    /\ result = NoResult
    /\ app_state = NoApp
    /\ port_call = None
    /\ disk_full = FALSE
    /\ frames = NoFrames

ScenarioTransition ==
    \E event \in FSMEvent :
      \E event_data \in ScenarioData(ctx, event), env \in PortsAsked(ctx, event) :
        LET w == transition(World, event, event_data, env, now)
        IN  /\ IsLegal(ctx.state, event) => Val(writer).sequence < MaxScenarioRecords
            /\ ctx' = w.ctx
            /\ writer' = w.writer
            /\ trace_file' = w.file
            /\ result' = w.result
            /\ UNCHANGED <<now, app_state, port_call, disk_full, frames>>

NextScenario == ScenarioTransition \/ Tick

SpecScenario == InitScenario /\ [][NextScenario]_vars

(***************************************************************************)
(* Two threads calling FSM.transition on one FSM.  The FSM holds no lock,  *)
(* so the statements of one call can run between the statements of the     *)
(* other: reading the state and evaluating the guards, assigning           *)
(* context.state, running the side effects, and calling the trace writer.  *)
(* Each thread makes one call, from a state on the way up to EMITTING.     *)
(***************************************************************************)
FreshWorld ==
    [ctx |-> BoundSession(ConfigDoc(2)), writer |-> Some(TraceWriter), file |-> <<>>,
     result |-> NoResult, disk_full |-> FALSE]

AllSafe == [deps_ok |-> TRUE, hw_healthy |-> TRUE, interlock_safe |-> TRUE]

AscentEvents == <<"INITIALIZE", "ARM", "ARM_CONFIRM", "EMIT_REQUEST">>

ThreadData(event) ==
    IF event = "EMIT_REQUEST" THEN {EmitRequest(600, 50, 600, 50)} ELSE {<<>>}

\* the world after the first k events of the ascent, each call run alone
RECURSIVE AscentWorld(_)
AscentWorld(k) ==
    IF k = 0
    THEN FreshWorld
    ELSE transition(AscentWorld(k - 1), AscentEvents[k],
                    IF AscentEvents[k] = "EMIT_REQUEST"
                    THEN EmitRequest(400, 40, 400, 40) ELSE <<>>,
                    AllSafe, 0)

InitThreads ==
    \E k \in 0 .. Len(AscentEvents) :
        /\ ctx = AscentWorld(k).ctx
        /\ writer = AscentWorld(k).writer
        /\ trace_file = AscentWorld(k).file
        /\ now = 0
        /\ result = NoResult
        /\ app_state = NoApp
        /\ port_call = None
        /\ disk_full = FALSE
        /\ frames = NoFrames

OtherThread(th) == CHOOSE other \in Threads : other # th

ReturnedFrame(frame, returned) == [frame EXCEPT !.pc = "returned", !.returned = returned]

\* transition(): from_state = self.context.state, the table lookup, and the loop
\* that evaluates the guards
BeginTransition(th) ==
    /\ frames[th].pc = "idle"
    /\ \E event \in FSMEvent :
         \E event_data \in ThreadData(event), env \in PortsAsked(ctx, event) :
           LET from_state == ctx.state
               legal == IsLegal(from_state, event)
               edge == TRANSITION_TABLE[<<from_state, event>>]
               frame == [pc |-> "guarded", event |-> event, event_data |-> event_data,
                         env |-> env, from_state |-> from_state,
                         to_state |-> IF legal THEN edge.to ELSE from_state,
                         results |-> IF legal
                                     THEN predicate_results(edge.preds, ctx, event_data,
                                                            env, now)
                                     ELSE <<>>,
                         began |-> World,
                         first |-> frames[OtherThread(th)].pc = "idle",
                         returned |-> NoResult]
           IN  IF legal
               THEN /\ ctx' = AfterGuards(edge.preds, ctx, now)
                    /\ frames' = [frames EXCEPT ![th] = frame]
                    /\ UNCHANGED result
               ELSE /\ frames' = [frames EXCEPT ![th] = ReturnedFrame(frame, Raised(event))]
                    /\ result' = Raised(event)
                    /\ UNCHANGED ctx
    /\ UNCHANGED <<writer, trace_file, now, app_state, port_call, disk_full>>

\* the guards are evaluated: _transition_to_fault when one failed, else
\* _execute_transition's "self.context.state = to_state"
AssignState(th) ==
    LET frame == frames[th]
    IN  /\ frame.pc = "guarded"
        /\ IF ~all_predicates_pass(frame.results) /\ frame.to_state # "SAFE"
           THEN LET w == _transition_to_fault(World, PredicateFailures(frame.results),
                                              frame.results)
                IN  /\ ctx' = w.ctx
                    /\ writer' = w.writer
                    /\ trace_file' = w.file
                    /\ result' = w.result
                    /\ frames' = [frames EXCEPT ![th] = ReturnedFrame(frame, w.result)]
           ELSE /\ ctx' = [ctx EXCEPT !.state = frame.to_state]
                /\ frames' = [frames EXCEPT ![th].pc = "state_set"]
                /\ UNCHANGED <<writer, trace_file, result>>
        /\ UNCHANGED <<now, app_state, port_call, disk_full>>

\* _execute_transition's "self._execute_side_effects(...)", on the context as it
\* is now
RunSideEffects(th) ==
    LET frame == frames[th]
    IN  /\ frame.pc = "state_set"
        /\ IF side_effects_raise(ctx, frame.to_state)
           THEN LET w == _transition_to_fault(World, ExecutionError, <<>>)
                IN  /\ ctx' = w.ctx
                    /\ writer' = w.writer
                    /\ trace_file' = w.file
                    /\ result' = w.result
                    /\ frames' = [frames EXCEPT ![th] = ReturnedFrame(frame, w.result)]
           ELSE /\ ctx' = _execute_side_effects(ctx, frame.to_state, frame.event,
                                                frame.event_data, now)
                /\ frames' = [frames EXCEPT ![th].pc = "effects_done"]
                /\ UNCHANGED <<writer, trace_file, result>>
        /\ UNCHANGED <<now, app_state, port_call, disk_full>>

\* _execute_transition's "self.trace_writer(transition_info)" and its return
AppendTrace(th) ==
    LET frame == frames[th]
        transition_info == [from_state |-> frame.from_state, to_state |-> frame.to_state,
                            event |-> frame.event, fault_reason |-> None,
                            predicates |-> frame.results,
                            event_data |-> Some(frame.event_data)]
        w == WriteTrace(World, transition_info)
    IN  /\ frame.pc = "effects_done"
        /\ writer' = w.writer
        /\ trace_file' = w.file
        /\ result' = Returned(frame.event, "Transitioned")
        /\ frames' = [frames EXCEPT ![th] =
                         ReturnedFrame(frame, Returned(frame.event, "Transitioned"))]
        /\ UNCHANGED <<ctx, now, app_state, port_call, disk_full>>

NextThreads ==
    \E th \in Threads :
        \/ BeginTransition(th)
        \/ AssignState(th)
        \/ RunSideEffects(th)
        \/ AppendTrace(th)

SpecThreads == InitThreads /\ [][NextThreads]_vars

\* the two calls run one after the other, the first from the given world
Serialized(start, first, second) ==
    transition(transition(start, first.event, first.event_data, first.env, 0),
               second.event, second.event_data, second.env, 0)

Outcome(w) == <<w.ctx.state, w.ctx.budget, w.file>>

\* what a status read returns: the state, the budget, the arming window, the hashes
Snapshot(c) == <<c.state, c.budget, c.arming_window_start, c.config_hash, c.cal_hash>>

(***************************************************************************)
(* The traced FSM on a disk that can fill up: appending to trace.jsonl     *)
(* raises OSError while the disk is full.                                  *)
(***************************************************************************)
InitTrace ==
    /\ ctx = BoundSession(ConfigDoc(2))
    /\ writer = Some(TraceWriter)
    /\ trace_file = <<>>
    /\ now = 0
    /\ result = NoResult
    /\ app_state = NoApp
    /\ port_call = None
    /\ disk_full \in BOOLEAN
    /\ frames = NoFrames

DiskFills ==
    /\ ~disk_full
    /\ disk_full' = TRUE
    /\ UNCHANGED <<ctx, writer, trace_file, now, result, app_state, port_call, frames>>

DiskFrees ==
    /\ disk_full
    /\ disk_full' = FALSE
    /\ UNCHANGED <<ctx, writer, trace_file, now, result, app_state, port_call, frames>>

NextTrace == FsmTransition \/ Tick \/ DiskFills \/ DiskFrees

SpecTrace == InitTrace /\ [][NextTrace]_vars

(***************************************************************************)
(* The traced FSM of a process that is started again on the trace file of  *)
(* the process before it, after a clean stop or after a crash in the       *)
(* middle of a write.                                                      *)
(***************************************************************************)
\* the crashes one trace file goes through
MaxCrashes == 1

\* the longest trace file, in lines after the header, a process is started on
MaxResumed == 1

InitResume ==
    /\ ctx = BoundSession(ConfigDoc(2))
    /\ writer = Some(TraceWriter)
    /\ trace_file = <<>>
    /\ now = 0
    /\ result = NoResult
    /\ app_state = NoApp
    /\ port_call = None
    /\ disk_full = FALSE
    /\ frames = NoFrames

\* the process stops between two writes and a new one opens the same file
Restart ==
    /\ trace_file # <<>>
    /\ Len(trace_file) <= MaxResumed
    /\ ctx' = BoundSession(ConfigDoc(2))
    /\ writer' = Some(TraceWriter__init__(trace_file))
    /\ result' = NoResult
    /\ UNCHANGED <<trace_file, now, app_state, port_call, disk_full, frames>>

\* the process dies in f.write with part of a record's line in the file, and a
\* new one opens the same file
CrashInWrite ==
    /\ trace_file # <<>>
    /\ Get(trace_file[Len(trace_file)], "newline", TRUE)
    /\ Cardinality({n \in DOMAIN trace_file : ~Parseable(trace_file[n])}) < MaxCrashes
    /\ Len(trace_file) <= MaxResumed
    /\ \E torn \in {AppendLine(trace_file, Unparseable("torn", FALSE))} :
         /\ trace_file' = torn
         /\ writer' = Some(TraceWriter__init__(torn))
    /\ ctx' = BoundSession(ConfigDoc(2))
    /\ result' = NoResult
    /\ UNCHANGED <<now, app_state, port_call, disk_full, frames>>

NextResume == FsmTransition \/ Tick \/ Restart \/ CrashInWrite

SpecResume == InitResume /\ [][NextResume]_vars

(***************************************************************************)
(* The control surface (api_server.py): the HTTP handlers that drive the   *)
(* FSM and the laser port.  A handler that answers with an HTTP error      *)
(* before it changes anything is a guard that is false.                    *)
(***************************************************************************)
pulse_dur_ms == 100
gap_dur_ms == 100

\* config/device_config.yaml as load_config_and_hash reads it
DeviceConfig == ConfigDoc(2)

(***************************************************************************)
(* hash_binding.py.  A document is a JSON value as Python holds it: a dict *)
(* is the sequence of its <<key, value>> items in insertion order, a value *)
(* is a dict or a scalar.  canonical_json writes the tokens of              *)
(* json.dumps(sort_keys=True); SHA-256 is a constructor over the string it  *)
(* is given (no collisions).                                                *)
(***************************************************************************)
Dict(items) == <<"dict", items>>

Atom(value) == <<"atom", value>>

\* the keys of the documents, in the order sort_keys puts them in
KeyOrder == <<"a", "b", "dark_voltage", "hardware", "points", "safety">>

KeyRank(key) == CHOOSE i \in DOMAIN KeyOrder : KeyOrder[i] = key

\* a serialization that writes the items in insertion order
sort_keys_insertion_order(items) == items

\* json.dumps(sort_keys=True): the items of a dict by ascending key
sort_keys(items) ==
    LET n == Len(items)
        order == CHOOSE p \in [1..n -> 1..n] :
                    /\ \A i, j \in 1..n : i # j => p[i] # p[j]
                    /\ \A i, j \in 1..n :
                          i < j => KeyRank(items[p[i]][1]) < KeyRank(items[p[j]][1])
    IN  [i \in 1..n |-> items[order[i]]]

RECURSIVE canonical_items(_, _)
RECURSIVE canonical_json(_)
\* the tokens of the first n items of a sorted dict
canonical_items(sorted, n) ==
    IF n = 0
    THEN <<>>
    ELSE canonical_items(sorted, n - 1)
            \o <<(<<"key", sorted[n][1]>>)>>
            \o canonical_json(sorted[n][2])

canonical_json(obj) ==
    IF obj[1] = "dict"
    THEN <<(<<"{">>)>> \o canonical_items(sort_keys(obj[2]), Len(obj[2])) \o <<(<<"}">>)>>
    ELSE <<obj>>

compute_hash(data) == <<"sha256", data>>

compute_config_hash(config) == compute_hash(canonical_json(config))

compute_calibration_hash(calibration) == compute_hash(canonical_json(calibration))

\* the dict of a loaded document: its top-level items, in the order given
PyDict(document, keys) ==
    LET present == SelectSeq(keys, LAMBDA k : k \in DOMAIN document)
    IN  Dict([i \in DOMAIN present |-> <<present[i], Atom(document[present[i]])>>])

ConfigDict(config) == PyDict(config, <<"hardware", "safety">>)

CalibrationDict(calibration) == PyDict(calibration, <<"points", "dark_voltage">>)

load_config_and_hash(config) ==
    [config |-> config, config_hash |-> compute_config_hash(ConfigDict(config))]

\* PhotodiodeReader(): the default calibration table, dark_voltage 0.0
PhotodiodeReader == [calibration_table |-> Calibration(2).points, dark_voltage |-> 0]

\* voltages that measure_dark_voltage can read
DarkVoltages == {0, 1}

\* the calibration document of a PhotodiodeReader: its table and its dark voltage
load_calibration_and_hash(calibration_source) ==
    LET calibration == [points |-> calibration_source.calibration_table,
                        dark_voltage |-> calibration_source.dark_voltage]
    IN  [calibration |-> calibration,
         cal_hash |-> compute_calibration_hash(CalibrationDict(calibration))]

detect_config_drift(bound_hash, current_config) ==
    bound_hash # compute_config_hash(current_config)

detect_calibration_drift(bound_hash, current_calibration) ==
    bound_hash # compute_calibration_hash(current_calibration)

\* startup_event: a context over the configuration alone, no hashes, no ports
StartupContext ==
    SessionContext(Some(DeviceConfig), None, None, None, FALSE, FALSE, FALSE)

\* encoded patterns, as <<number of pulses, number of gaps>>; the encoders give
\* the empty pattern for a message none of whose characters they know
Patterns == {<<0, 0>>, <<2, 2>>, <<3, 3>>}

total_duration_ms(pattern) == pattern[1] * pulse_dur_ms + pattern[2] * gap_dur_ms

duty_cycle_percent(pattern) ==
    IF total_duration_ms(pattern) > 0
    THEN (pattern[1] * pulse_dur_ms * 100) \div total_duration_ms(pattern)
    ELSE 0

(***************************************************************************)
(* contracts.py: the emit envelope.  Instants are kept in milliseconds, so  *)
(* duration_ms is the difference of the two ends; the constructors raise    *)
(* ValueError on the conditions of their __post_init__.                     *)
(***************************************************************************)
PulseWidthBounds(min_ms, max_ms) == [min_ms |-> min_ms, max_ms |-> max_ms]

PulseWidthBounds_raises(bounds) == bounds.min_ms < 0 \/ bounds.min_ms > bounds.max_ms

EmitEnvelope(power_mw_max, duty_cycle_max, t_start, t_end, pulse_width_bounds) ==
    [power_mw_max |-> power_mw_max,
     duty_cycle_max |-> duty_cycle_max,
     t_start |-> t_start,
     t_end |-> t_end,
     pulse_width_bounds |-> pulse_width_bounds]

EmitEnvelope_raises(envelope) ==
    \/ envelope.power_mw_max > 1
    \/ envelope.duty_cycle_max < 0
    \/ envelope.duty_cycle_max > 100
    \/ envelope.t_start >= envelope.t_end

duration_ms(envelope) == envelope.t_end - envelope.t_start

\* LaserController.validate_emit_envelope
validate_emit_envelope(envelope) ==
    /\ envelope.power_mw_max <= 1
    /\ envelope.duty_cycle_max >= 0
    /\ envelope.duty_cycle_max <= 100
    /\ envelope.t_start < envelope.t_end
    /\ envelope.pulse_width_bounds # None =>
          /\ Val(envelope.pulse_width_bounds).min_ms >= 0
          /\ Val(envelope.pulse_width_bounds).min_ms <= Val(envelope.pulse_width_bounds).max_ms

\* safety.get('max_power_mw', 1.0)
max_power_mw == 1

\* an envelope that spans the pulses of the pattern and leaves out its gaps
emit_envelope_pulses_only(pattern, t_start) ==
    EmitEnvelope(max_power_mw, 100, t_start, t_start + pattern[1] * pulse_dur_ms,
                 Some(PulseWidthBounds(pulse_dur_ms, pulse_dur_ms)))

\* the envelope emit_pattern builds for the encoded pattern
emit_envelope(pattern, t_start) ==
    EmitEnvelope(max_power_mw, 100, t_start, t_start + total_duration_ms(pattern),
                 Some(PulseWidthBounds(pulse_dur_ms, pulse_dur_ms)))

\* emit_pattern gets past the construction and the validation of its envelope
envelope_accepted(pattern, t_start) ==
    /\ ~PulseWidthBounds_raises(PulseWidthBounds(pulse_dur_ms, pulse_dur_ms))
    /\ ~EmitEnvelope_raises(emit_envelope(pattern, t_start))
    /\ validate_emit_envelope(emit_envelope(pattern, t_start))

\* the laser port is called while the FSM is in the given state, and returns ok
PortCall(call, state, ok) == Some([call |-> call, state |-> state, ok |-> ok])

\* the application starts; startup_event has run, or it has not (a test client
\* that does not run the startup handlers)
InitApi ==
    /\ app_state \in {NoApp, [NoApp EXCEPT !.fsm = TRUE]}
    /\ ctx = IF app_state.fsm THEN StartupContext ELSE None
    /\ writer = IF app_state.fsm THEN Some(TraceWriter) ELSE None
    /\ trace_file = <<>>
    /\ now = 0
    /\ result = NoResult
    /\ port_call = None
    /\ disk_full = FALSE
    /\ frames = NoFrames

\* POST /api/initialize
initialize_hardware ==
    LET photodiode_reader == IF app_state.photodiode_reader = None
                             THEN PhotodiodeReader
                             ELSE Val(app_state.photodiode_reader)
        loaded_config == load_config_and_hash(DeviceConfig)
        loaded_cal == load_calibration_and_hash(photodiode_reader)
        created == IF app_state.fsm THEN World
                   ELSE [ctx |-> SessionContext(Some(loaded_config.config),
                                                Some(loaded_config.config_hash),
                                                Some(loaded_cal.calibration),
                                                Some(loaded_cal.cal_hash),
                                                TRUE, TRUE, FALSE),
                         writer |-> Some(TraceWriter),
                         file |-> trace_file,
                         result |-> result,
                         disk_full |-> disk_full]
    IN  \E env \in PortsAsked(created.ctx, "INITIALIZE") :
          LET w == IF created.ctx.state # "SAFE" THEN created
                   ELSE transition(created, "INITIALIZE", <<>>, env, now)
          IN  /\ ~app_state.shut_down
              /\ Len(trace_file) < MaxRecords
              /\ app_state' = [app_state EXCEPT
                                  !.fsm = TRUE,
                                  !.laser_controller = TRUE,
                                  !.photodiode_reader = Some(photodiode_reader),
                                  !.session_bundle = @ \/ ~app_state.fsm]
              /\ ctx' = w.ctx
              /\ writer' = w.writer
              /\ trace_file' = w.file
              /\ result' = w.result
              /\ UNCHANGED <<now, port_call, disk_full, frames>>

\* POST /api/arm
arm_system ==
    /\ ~app_state.shut_down
    /\ app_state.fsm
    /\ ctx.state = "INITIALIZED"
    /\ Len(trace_file) < MaxRecords
    /\ \E env \in PortsAsked(ctx, "ARM") :
         LET w == transition(World, "ARM", <<>>, env, now)
         IN  /\ ctx' = w.ctx
             /\ writer' = w.writer
             /\ trace_file' = w.file
             /\ result' = w.result
    /\ UNCHANGED <<now, app_state, port_call, disk_full, frames>>

\* POST /api/arm/confirm
confirm_arm ==
    /\ ~app_state.shut_down
    /\ app_state.fsm
    /\ ctx.state = "ARMED"
    /\ Len(trace_file) < MaxRecords
    /\ \E env \in PortsAsked(ctx, "ARM_CONFIRM") :
         LET w == transition(World, "ARM_CONFIRM", <<>>, env, now)
         IN  /\ ctx' = w.ctx
             /\ writer' = w.writer
             /\ trace_file' = w.file
             /\ result' = w.result
    /\ UNCHANGED <<now, app_state, port_call, disk_full, frames>>

\* POST /api/stop: RESET from FAULT, STOP otherwise (refused by the FSM in SAFE)
stop_system ==
    /\ ~app_state.shut_down
    /\ app_state.fsm
    /\ Len(trace_file) < MaxRecords
    /\ LET event == IF ctx.state = "FAULT" THEN "RESET" ELSE "STOP"
       IN  \E env \in PortsAsked(ctx, event) :
             LET w == transition(World, event, <<>>, env, now)
             IN  /\ ctx' = w.ctx
                 /\ writer' = w.writer
                 /\ trace_file' = w.file
                 /\ result' = w.result
    /\ UNCHANGED <<now, app_state, port_call, disk_full, frames>>

\* POST /api/measurement/calibrate-dark: the reader measures and keeps a new
\* dark voltage
calibrate_dark ==
    /\ ~app_state.shut_down
    /\ app_state.photodiode_reader # None
    /\ \E dark_voltage \in DarkVoltages :
         app_state' = [app_state EXCEPT !.photodiode_reader =
                          Some([Val(@) EXCEPT !.dark_voltage = dark_voltage])]
    /\ UNCHANGED <<ctx, writer, trace_file, now, result, port_call, disk_full, frames>>

\* POST /api/laser/enable
enable_laser ==
    /\ ~app_state.shut_down
    /\ app_state.laser_controller
    /\ \E env \in PortAnswers :
         /\ env.interlock_safe
         /\ port_call' = PortCall("enable", ctx.state, TRUE)
    /\ UNCHANGED <<ctx, writer, trace_file, now, result, app_state, disk_full, frames>>

\* POST /api/laser/pulse
send_pulse ==
    /\ ~app_state.shut_down
    /\ app_state.laser_controller
    /\ \E env \in PortAnswers :
         /\ env.interlock_safe
         /\ port_call' = PortCall("pulse", ctx.state, TRUE)
    /\ UNCHANGED <<ctx, writer, trace_file, now, result, app_state, disk_full, frames>>

\* POST /api/emit: the envelope built from the encoded pattern and validated,
\* the budget check, EMIT_REQUEST (whose return is "success" also when a guard
\* failed and the FSM went to FAULT), the port's send_pattern, EMIT_COMPLETE
\* whatever send_pattern returned, then HTTP 500 when it returned False and the
\* EMIT_RESULT record when it returned True
emit_pattern ==
    /\ ~app_state.shut_down
    /\ app_state.fsm
    /\ ctx.state = "EMIT_READY"
    /\ app_state.laser_controller
    /\ Len(trace_file) < MaxRecords
    /\ \E pattern \in Patterns, env \in PortsAsked(ctx, "EMIT_REQUEST"),
          pattern_success \in BOOLEAN, t_end \in {t \in Instants : t >= now} :
         LET total_ms == total_duration_ms(pattern)
             duty == duty_cycle_percent(pattern)
         IN  /\ envelope_accepted(pattern, now * 1000)
             /\ check_budget_available(ctx, total_ms, duty)
             /\ \E requested \in {transition(World, "EMIT_REQUEST",
                                             EmitRequest(total_ms, duty, total_ms, duty),
                                             env, now)} :
                \E completed \in {transition(requested, "EMIT_COMPLETE",
                                             [emit_duration_ms |-> total_ms,
                                              duty_percent |-> duty],
                                             env, t_end)} :
                \E traced \in {IF completed.result.kind = "FSMError" \/ ~pattern_success
                               THEN completed
                               ELSE write_record(completed, "EMIT_RESULT", "EMITTING",
                                                 "EMIT_READY", None,
                                                 Some([duration_ms |-> total_ms,
                                                       duty_percent |-> duty,
                                                       success |-> pattern_success]),
                                                 completed.ctx.config_hash,
                                                 completed.ctx.cal_hash)} :
                  /\ port_call' = PortCall("send_pattern", requested.ctx.state,
                                           pattern_success)
                  /\ ctx' = traced.ctx
                  /\ writer' = traced.writer
                  /\ trace_file' = traced.file
                  /\ result' = traced.result
                  /\ now' = t_end
    /\ UNCHANGED <<app_state, disk_full, frames>>

\* TraceWriter.get_root_hash: the last record's hash combined with the hash of
\* the session metadata, or the zero hash when nothing was written
get_root_hash(w, session_metadata) ==
    IF w.prev_hash = None
    THEN ZeroHash
    ELSE _compute_hash(<<Val(w.prev_hash), _compute_hash(_canonical_json(session_metadata))>>)

\* SessionBundle._create_manifest (creation time and versions are left out)
_create_manifest(c, w) ==
    LET session_metadata == [session_id |-> c.session_id,
                             state |-> c.state,
                             config_hash |-> c.config_hash,
                             cal_hash |-> c.cal_hash,
                             simulation_mode |-> c.simulation_mode,
                             fault_reason |-> c.fault_reason]
    IN  [session_id |-> c.session_id,
         root_hash |-> get_root_hash(w, session_metadata),
         state |-> c.state,
         config_hash |-> c.config_hash,
         cal_hash |-> c.cal_hash,
         simulation_mode |-> c.simulation_mode,
         fault_reason |-> c.fault_reason,
         budget_final |->
            IF c.budget = None
            THEN None
            ELSE Some([remaining_emit_ms |-> Val(c.budget).remaining_emit_ms,
                       remaining_duty_percent |-> Val(c.budget).remaining_duty_percent,
                       cooldown_remaining_ms |-> Val(c.budget).cooldown_remaining_ms])]

\* the shutdown handler: the bundle is written when a session bundle was created
shutdown_event ==
    /\ ~app_state.shut_down
    /\ app_state' = [app_state EXCEPT
                        !.shut_down = TRUE,
                        !.manifest = IF app_state.session_bundle
                                     THEN Some(_create_manifest(ctx, Val(writer)))
                                     ELSE None]
    /\ UNCHANGED <<ctx, writer, trace_file, now, result, port_call, disk_full, frames>>

\* the handlers answer until the server is shut down
NextApi ==
    \/ initialize_hardware
    \/ arm_system
    \/ confirm_arm
    \/ stop_system
    \/ calibrate_dark
    \/ enable_laser
    \/ send_pulse
    \/ emit_pattern
    \/ shutdown_event
    \/ Tick

SpecApi == InitApi /\ [][NextApi]_vars

(***************************************************************************)
(* The hash functions applied to documents: a document is bound, then a     *)
(* current document is compared with the bound hash.                        *)
(***************************************************************************)
\* the dicts whose keys are among the given keys, in every insertion order
DictsOver(keys, values) ==
    {Dict(<<>>)}
    \cup {Dict(<<(<<k, v>>)>>) : k \in keys, v \in values}
    \cup {Dict(<<(<<k1, v1>>), (<<k2, v2>>)>>) :
            <<k1, k2>> \in {kk \in keys \X keys : kk[1] # kk[2]},
            <<v1, v2>> \in values \X values}

\* documents of two keys, nested once
Documents ==
    DictsOver({"a", "b"}, {Atom(1), Atom(2)} \cup DictsOver({"a", "b"}, {Atom(1)}))

RECURSIVE Tree(_)
\* the key/value tree of a document: what dict equality compares
Tree(obj) ==
    IF obj[1] = "dict"
    THEN <<"dict", {<<obj[2][i][1], Tree(obj[2][i][2])>> : i \in DOMAIN obj[2]}>>
    ELSE obj

InitHash ==
    /\ ctx = None
    /\ writer = None
    /\ trace_file = <<>>
    /\ now = 0
    /\ result = NoResult
    /\ app_state = NoApp
    /\ port_call = None
    /\ disk_full = FALSE
    /\ frames = NoFrames

\* a document is loaded and its hashes are bound
BindDocument ==
    /\ \E document \in Documents :
         result' = [kind |-> "bound",
                    document |-> document,
                    config_hash |-> compute_config_hash(document),
                    cal_hash |-> compute_calibration_hash(document)]
    /\ UNCHANGED <<ctx, writer, trace_file, now, app_state, port_call, disk_full, frames>>

\* a current document is checked against the bound hashes
DetectDrift ==
    /\ result.kind \in {"bound", "checked"}
    /\ \E current \in Documents :
         result' = [kind |-> "checked",
                    document |-> result.document,
                    config_hash |-> result.config_hash,
                    cal_hash |-> result.cal_hash,
                    current |-> current,
                    config_drifted |-> detect_config_drift(result.config_hash, current),
                    calibration_drifted |->
                        detect_calibration_drift(result.cal_hash, current)]
    /\ UNCHANGED <<ctx, writer, trace_file, now, app_state, port_call, disk_full, frames>>

NextHash == BindDocument \/ DetectDrift

SpecHash == InitHash /\ [][NextHash]_vars

\* C1: a laser-port call that can emit light (send_pattern, pulse, enable) is made
\* only while the FSM state is EMITTING
C1_PortCalledOnlyWhileEmitting ==
    port_call # None => Val(port_call).state = "EMITTING"

(***************************************************************************)
(* Properties of the state machine, checked under Spec.  Those stated over *)
(* transition(World, ...) hold of every call the FSM's owner can make in   *)
(* every reachable state.                                                  *)
(***************************************************************************)

\* C2: every entry into EMITTING comes directly from EMIT_READY, and every entry
\* into EMIT_READY that does not come from EMITTING comes directly from ARMED by an
\* ARM_CONFIRM made strictly less than the arming window after the window was stamped
C2_EmittingOnlyThroughConfirmedArm ==
    [][/\ (ctx'.state = "EMITTING" /\ ctx.state # "EMITTING")
            => ctx.state = "EMIT_READY"
       /\ (ctx'.state = "EMIT_READY" /\ ctx.state \notin {"EMIT_READY", "EMITTING"})
            => /\ ctx.state = "ARMED"
               /\ result'.event = "ARM_CONFIRM"
               /\ ctx.arming_window_start # None
               /\ (now - Val(ctx.arming_window_start)) * 1000
                    < arming_window_duration_ms]_vars

\* EMITTING has been entered by an EMIT_REQUEST
C2_Witness ==
    /\ ctx.state = "EMITTING"
    /\ result = [kind |-> "returned", event |-> "EMIT_REQUEST", message |-> "Transitioned"]

\* the fifteen edges of the documented table: ten named edges and FAULT from each
\* of the five states other than FAULT
ListedEdges ==
    (<<"SAFE", "INITIALIZE">> :> "INITIALIZED")
    @@ (<<"INITIALIZED", "ARM">> :> "ARMED")
    @@ (<<"ARMED", "ARM_CONFIRM">> :> "EMIT_READY")
    @@ (<<"EMIT_READY", "EMIT_REQUEST">> :> "EMITTING")
    @@ (<<"EMITTING", "EMIT_COMPLETE">> :> "EMIT_READY")
    @@ (<<"EMITTING", "STOP">> :> "EMIT_READY")
    @@ (<<"EMIT_READY", "STOP">> :> "ARMED")
    @@ (<<"ARMED", "STOP">> :> "INITIALIZED")
    @@ (<<"INITIALIZED", "STOP">> :> "SAFE")
    @@ (<<"FAULT", "RESET">> :> "SAFE")
    @@ [pair \in {<<state, "FAULT">> : state \in FSMState \ {"FAULT"}} |-> "FAULT"]

\* C3 as stated: whenever all guards required for (state, event) pass, the call moves
\* the state to exactly the listed target, and the calls that are accepted are exactly
\* those of the fifteen listed edges
C3_GuardsPassReachesTarget ==
    \A event \in FSMEvent :
      \A event_data \in EventData(ctx, event), env \in PortsAsked(ctx, event) :
        LET w == transition(World, event, event_data, env, now)
            pair == <<ctx.state, event>>
        IN  /\ w.result.kind = "returned" <=> pair \in DOMAIN ListedEdges
            /\ w.result.kind = "FSMError" <=> pair \notin DOMAIN ListedEdges
            /\ (/\ pair \in DOMAIN ListedEdges
                /\ \A i \in DOMAIN TRANSITION_TABLE[pair].preds :
                      EvalPredicate(TRANSITION_TABLE[pair].preds[i], ctx, event_data,
                                    env, now))
                  => w.ctx.state = ListedEdges[pair]

\* C3, amended: whenever all guards required for (state, event) pass, the call moves
\* the state to exactly the listed target unless a side effect of entering the target
\* raises (initialize_budget over a configuration whose safety section is null), and
\* then the state is FAULT with the reason "Transition execution error"; the calls
\* that are accepted are exactly those of the fifteen listed edges
C3_GuardsPassReachesTargetOrExecutionFault ==
    \A event \in FSMEvent :
      \A event_data \in EventData(ctx, event), env \in PortsAsked(ctx, event) :
        LET w == transition(World, event, event_data, env, now)
            pair == <<ctx.state, event>>
        IN  /\ w.result.kind = "returned" <=> pair \in DOMAIN ListedEdges
            /\ w.result.kind = "FSMError" <=> pair \notin DOMAIN ListedEdges
            /\ (/\ pair \in DOMAIN ListedEdges
                /\ \A i \in DOMAIN TRANSITION_TABLE[pair].preds :
                      EvalPredicate(TRANSITION_TABLE[pair].preds[i], ctx, event_data,
                                    env, now))
                  => IF /\ ListedEdges[pair] = "INITIALIZED"
                        /\ Truthy(ctx.config)
                        /\ "safety" \in DOMAIN Val(ctx.config)
                        /\ Val(ctx.config).safety = None
                     THEN /\ w.ctx.state = "FAULT"
                          /\ w.ctx.fault_reason # None
                          /\ Val(w.ctx.fault_reason).tag = "Transition execution error"
                     ELSE w.ctx.state = ListedEdges[pair]

\* a guarded edge has been taken to its target, all its guards passing, in a
\* session that faulted before and was reset
C3_Witness ==
    /\ ctx.state = "ARMED"
    /\ result = [kind |-> "returned", event |-> "ARM", message |-> "Transitioned"]
    /\ ctx.budget # None
    /\ ctx.fault_reason # None

\* C4: a call with a (state, event) pair that the table does not list raises FSMError
\* and leaves the state, the budget, the arming window, fault_reason and the trace
\* (record count, last sequence number, last hash) as they were
C4_IllegalPairRejectedUnchanged ==
    \A event \in FSMEvent :
      \A event_data \in EventData(ctx, event), env \in PortsAsked(ctx, event) :
        <<ctx.state, event>> \notin DOMAIN TRANSITION_TABLE =>
            LET w == transition(World, event, event_data, env, now)
            IN  /\ w.result.kind = "FSMError"
                /\ w.ctx.state = ctx.state
                /\ w.ctx.budget = ctx.budget
                /\ w.ctx.arming_window_start = ctx.arming_window_start
                /\ w.ctx.fault_reason = ctx.fault_reason
                /\ Len(w.file) = Len(trace_file)
                /\ w.writer = writer

\* an illegal call has been refused in a session that holds a budget, an arming
\* window and a trace
C4_Witness ==
    /\ result.kind = "FSMError"
    /\ ctx.budget # None
    /\ ctx.arming_window_start # None
    /\ Len(trace_file) >= 2

\* C5: on a listed edge whose target is not SAFE, when one or more required guards
\* are false, every required guard is still evaluated, the state becomes FAULT,
\* fault_reason names exactly the guards that failed, and exactly one trace record,
\* carrying the result of every guard, is appended (by an FSM that has a trace writer)
C5_GuardFailureDivertsToFault ==
    \A event \in FSMEvent :
      \A event_data \in EventData(ctx, event), env \in PortsAsked(ctx, event) :
        LET pair == <<ctx.state, event>>
            preds == TRANSITION_TABLE[pair].preds
            failed == {i \in DOMAIN preds :
                         ~EvalPredicate(preds[i], ctx, event_data, env, now)}
            w == transition(World, event, event_data, env, now)
        IN  (/\ pair \in DOMAIN TRANSITION_TABLE
             /\ TRANSITION_TABLE[pair].to # "SAFE"
             /\ failed # {})
              => /\ w.ctx.state = "FAULT"
                 /\ w.ctx.fault_reason # None
                 /\ Val(w.ctx.fault_reason).tag = "Predicate failures"
                 /\ Range(Val(w.ctx.fault_reason).names) = {preds[i] : i \in failed}
                 /\ Len(Val(w.ctx.fault_reason).names) = Cardinality(failed)
                 /\ writer = None => w.file = trace_file
                 /\ writer # None =>
                      /\ Len(w.file) = Len(trace_file) + 1
                      /\ SubSeq(w.file, 1, Len(trace_file)) = trace_file
                      /\ LET record == w.file[Len(w.file)]
                         IN  /\ record.event_type = "FAULT"
                             /\ record.state_to = "FAULT"
                             /\ Len(record.predicates) = Len(preds)
                             /\ \A i \in DOMAIN preds :
                                  /\ record.predicates[i].name = preds[i]
                                  /\ record.predicates[i].passed = (i \notin failed)

\* a traced FSM has faulted on an edge two of whose guards failed, the first of
\* them passing guards that were evaluated before it
C5_Witness ==
    /\ ctx.state = "FAULT"
    /\ writer # None
    /\ trace_file # <<>>
    /\ ctx.fault_reason =
         Some([tag |-> "Predicate failures",
               names |-> <<"check_dependencies_ok", "check_hardware_health">>])
    /\ trace_file[Len(trace_file)].state_to = "FAULT"

\* C6: FAULT is latched: in FAULT every event other than RESET is rejected with the
\* state still FAULT, RESET moves the state to SAFE, and so the state right after
\* FAULT is FAULT or SAFE
C6_FaultLatched ==
    /\ [](ctx.state = "FAULT" =>
            \A event \in FSMEvent :
              \A event_data \in EventData(ctx, event), env \in PortsAsked(ctx, event) :
                LET w == transition(World, event, event_data, env, now)
                IN  IF event = "RESET"
                    THEN w.result.kind = "returned" /\ w.ctx.state = "SAFE"
                    ELSE w.result.kind = "FSMError" /\ w.ctx.state = "FAULT")
    /\ [][ctx.state = "FAULT" =>
            \/ ctx'.state = "FAULT"
            \/ ctx'.state = "SAFE" /\ result'.event = "RESET"]_vars

\* a session that was armed has faulted and then been reset to SAFE
C6_Witness ==
    /\ ctx.state = "SAFE"
    /\ result = [kind |-> "returned", event |-> "RESET", message |-> "Transitioned"]
    /\ ctx.fault_reason # None
    /\ ctx.budget # None

\* C7: whenever the state is FAULT, fault_reason is set, however FAULT was entered
C7_FaultHasReason == ctx.state = "FAULT" => ctx.fault_reason # None

\* C8: from one state to the next, remaining_emit_ms and remaining_duty_percent of
\* the session's budget never increase
C8_BudgetNeverIncreases ==
    [][(ctx.budget # None /\ ctx'.budget # None) =>
         /\ Val(ctx'.budget).remaining_emit_ms <= Val(ctx.budget).remaining_emit_ms
         /\ Val(ctx'.budget).remaining_duty_percent
              <= Val(ctx.budget).remaining_duty_percent]_vars

\* C9: whenever the budget exists, remaining_emit_ms >= 0,
\* 0 <= remaining_duty_percent <= 100 and cooldown_remaining_ms >= 0
C9_BudgetWithinBounds ==
    ctx.budget # None =>
        /\ Val(ctx.budget).remaining_emit_ms >= 0
        /\ Val(ctx.budget).remaining_duty_percent >= 0
        /\ Val(ctx.budget).remaining_duty_percent <= 100
        /\ Val(ctx.budget).cooldown_remaining_ms >= 0

\* a request that debits more emit time and more duty than the budget holds has
\* been accepted
C9_Witness ==
    /\ ctx.state = "EMITTING"
    /\ result = [kind |-> "returned", event |-> "EMIT_REQUEST", message |-> "Transitioned"]
    /\ ctx.budget # None
    /\ Val(ctx.budget).remaining_emit_ms = 0
    /\ Val(ctx.budget).remaining_duty_percent = 0

\* C10: in EMIT_READY, an EMIT_REQUEST that asks for exactly remaining_emit_ms (and
\* for no more duty than remains) and debits what it asks for passes
\* check_budget_available and enters EMITTING with remaining_emit_ms = 0; and in
\* EMIT_READY with remaining_emit_ms = 0, an EMIT_REQUEST that asks for any positive
\* emit time fails check_budget_available and the state becomes FAULT
C10_LastMillisecondThenFault ==
    (ctx.state = "EMIT_READY" /\ ctx.budget # None) =>
        \A event_data \in RequestData \ {<<>>}, env \in PortsAsked(ctx, "EMIT_REQUEST") :
            LET w == transition(World, "EMIT_REQUEST", event_data, env, now)
                budget == Val(ctx.budget)
            IN  /\ (/\ event_data.required_emit_ms = budget.remaining_emit_ms
                    /\ event_data.required_duty_percent <= budget.remaining_duty_percent
                    /\ event_data.emit_duration_ms = event_data.required_emit_ms
                    /\ env.interlock_safe)
                      => /\ w.ctx.state = "EMITTING"
                         /\ Val(w.ctx.budget).remaining_emit_ms = 0
                /\ (/\ budget.remaining_emit_ms = 0
                    /\ event_data.required_emit_ms > 0)
                      => /\ w.ctx.state = "FAULT"
                         /\ "check_budget_available"
                              \in Range(Val(w.ctx.fault_reason).names)

\* the budget was spent to the last millisecond by requests that asked for what they
\* debited (duty remains), and the next request faulted on check_budget_available
C10_Witness ==
    /\ ctx.state = "FAULT"
    /\ ctx.budget # None
    /\ Val(ctx.budget).remaining_emit_ms = 0
    /\ Val(ctx.budget).remaining_duty_percent = 10
    /\ ctx.fault_reason =
         Some([tag |-> "Predicate failures", names |-> <<"check_budget_available">>])

\* C11: an ARM_CONFIRM issued in ARMED when the time elapsed since
\* arming_window_start is at least arming_window_duration_ms (exactly equal
\* included) fails check_arm_confirmation_within_window and the state becomes
\* FAULT; when the elapsed time is strictly less, the state becomes EMIT_READY
C11_ArmConfirmWindowBoundary ==
    (ctx.state = "ARMED" /\ ctx.arming_window_start # None) =>
        \A env \in PortsAsked(ctx, "ARM_CONFIRM"), delay \in {0, 2, 4, 5, 6} :
            LET current_time == now + delay
                elapsed_ms == (current_time - Val(ctx.arming_window_start)) * 1000
                w == transition(World, "ARM_CONFIRM", <<>>, env, current_time)
            IN  /\ elapsed_ms >= arming_window_duration_ms
                      => /\ w.ctx.state = "FAULT"
                         /\ w.ctx.fault_reason # None
                         /\ "check_arm_confirmation_within_window"
                              \in Range(Val(w.ctx.fault_reason).names)
                /\ elapsed_ms < arming_window_duration_ms
                      => w.ctx.state = "EMIT_READY"

\* a confirmation made exactly arming_window_duration_ms after the stamp has
\* faulted on the window guard alone
C11_Witness ==
    /\ ctx.state = "FAULT"
    /\ result.event = "ARM_CONFIRM"
    /\ ctx.arming_window_start # None
    /\ (now - Val(ctx.arming_window_start)) * 1000 = arming_window_duration_ms
    /\ ctx.fault_reason =
         Some([tag |-> "Predicate failures",
               names |-> <<"check_arm_confirmation_within_window">>])

\* C12: after an emission has ended at time t, no step enters EMITTING before
\* t + safety.cooldown_time
C12_NoEmissionDuringCooldown ==
    [][(/\ ctx'.state = "EMITTING"
        /\ ctx.state # "EMITTING"
        /\ ctx.config # None
        /\ "safety" \in DOMAIN Val(ctx.config)
        /\ Val(ctx.config).safety # None
        /\ "cooldown_time" \in DOMAIN SafetySection(Val(ctx.config))
        /\ ctx.budget # None
        /\ Val(ctx.budget).last_emit_end_time # None)
          => (now - Val(Val(ctx.budget).last_emit_end_time)) * 1000
                >= SafetySection(Val(ctx.config)).cooldown_time * 1000]_vars

\* C13: in a trace written by TraceWriter.write_record calls on a fresh trace,
\* the first record's prev_hash is the zero hash, every later record's prev_hash
\* is the hash field of the record before it, every record's hash is the hash of
\* its canonical serialization without the hash field, and verify_chain on the
\* file returns (True, [])
C13_ChainWrittenVerifies ==
    /\ \A n \in DOMAIN trace_file :
          LET record == trace_file[n]
          IN  /\ record.prev_hash = IF n = 1 THEN ZeroHash ELSE trace_file[n - 1].hash
              /\ record.hash = _compute_hash(_canonical_json(
                                   [k \in DOMAIN record \ {"hash"} |-> record[k]]))
    /\ verify_chain(trace_file) = [kind |-> "returned", is_valid |-> TRUE, errors |-> <<>>]

\* three records have been written, the last one after a failed append
C13_Witness ==
    /\ Len(trace_file) = 3
    /\ Val(writer).sequence = MaxRecords
    /\ trace_file[3].prev_hash = trace_file[2].hash

\* C14: in every reachable state the seq values of the records present in the
\* trace file are exactly 1..N without gap or duplicate, N the number of
\* records, also when a write_record call that failed to append is followed by a
\* successful one
C14_SequenceDense ==
    /\ {trace_file[n].seq : n \in DOMAIN trace_file} = 1 .. Len(trace_file)
    /\ \A n, m \in DOMAIN trace_file : trace_file[n].seq = trace_file[m].seq => n = m

\* C15: when any one record of a written trace file is altered (a field changed,
\* added or removed, the hash field included), verify_chain returns
\* is_valid = False with at least one error
C15_AlterationDetected ==
    \A k \in DOMAIN trace_file :
        \A altered \in Alterations(trace_file[k]) :
            LET verdict == verify_chain([trace_file EXCEPT ![k] = altered])
            IN  /\ verdict.kind = "returned"
                /\ ~verdict.is_valid
                /\ verdict.errors # <<>>

\* C16: when the content of record k of an N-record trace is mutated (its stored
\* hash left as written), the reader reports a hash mismatch for seq k and a
\* prev_hash mismatch for every later record k+1 .. N
C16_MutationReportedDownstream ==
    \A k \in DOMAIN trace_file :
        \A altered \in ContentAlterations(trace_file[k]) :
            LET verdict == verify_chain([trace_file EXCEPT ![k] = altered])
                reported == Range(verdict.errors)
            IN  /\ verdict.kind = "returned"
                /\ HashError(trace_file[k].seq, "hash mismatch") \in reported
                /\ \A n \in (k + 1) .. Len(trace_file) :
                      HashError(trace_file[n].seq, "prev_hash mismatch") \in reported

\* C17: a transition whose trace record could not be written ends in FAULT with
\* reason trace_unavailable, never in a state other than FAULT
C17_TraceFailureFaults ==
    [][(/\ writer # None
        /\ writer' # None
        /\ Val(writer').sequence > Val(writer).sequence
        /\ trace_file' = trace_file)
          => /\ ctx'.state = "FAULT"
             /\ ctx'.fault_reason = Some([tag |-> "trace_unavailable", names |-> <<>>])]_vars

\* C18: when send_pattern, called while the state is EMITTING, reports failure,
\* the state after the request is FAULT with a fault reason, not EMIT_READY
C18_PortFailureFaults ==
    [][(/\ ctx # None
        /\ ctx.state = "EMIT_READY"
        /\ trace_file' # trace_file
        /\ result'.event # "STOP"
        /\ port_call' = PortCall("send_pattern", "EMITTING", FALSE))
          => /\ ctx'.state = "FAULT"
             /\ ctx'.fault_reason # None]_vars

\* C19: once the calibration document's recomputed hash differs from the bound
\* cal_hash, no emission is authorized any more: no step records a transition
\* into EMITTING while the bound hash and the document disagree
C19_NoEmissionAfterDrift ==
    [][~(/\ ctx # None
         /\ ctx.cal_hash # None
         /\ app_state.photodiode_reader # None
         /\ detect_calibration_drift(
                Val(ctx.cal_hash),
                CalibrationDict(
                    load_calibration_and_hash(Val(app_state.photodiode_reader)).calibration))
         /\ \E n \in (Len(trace_file) + 1) .. Len(trace_file') :
               trace_file'[n].state_to = "EMITTING")]_vars

\* C20: no FSM transition, successful, faulting or rejected, changes config_hash,
\* cal_hash, the config snapshot, the calibration snapshot or session_id
C20_BoundFieldsFrozen ==
    [][/\ ctx'.config_hash = ctx.config_hash
       /\ ctx'.cal_hash = ctx.cal_hash
       /\ ctx'.config = ctx.config
       /\ ctx'.calibration = ctx.calibration
       /\ ctx'.session_id = ctx.session_id]_vars

\* a bound session has been through successful transitions (an emission has
\* ended) and then through a faulting one, and holds the hashes it was bound with
C20_Witness ==
    /\ ctx.state = "FAULT"
    /\ ctx.fault_reason # None
    /\ ctx.budget # None
    /\ Val(ctx.budget).last_emit_end_time # None
    /\ ctx.config_hash = Some("config_hash")
    /\ ctx.cal_hash = Some("cal_hash")
    /\ ctx.session_id = "session"

\* C21: every accepted transition, successful or diverted to FAULT, appends
\* exactly one trace record, with the next seq; and after the happy path
\* INITIALIZE, ARM, ARM_CONFIRM, EMIT_REQUEST(100 ms, 10 %), EMIT_COMPLETE from
\* SAFE with max_continuous_time 1.0 s and cooldown 0 the state is EMIT_READY,
\* the budget is {900 ms, 90 %, 0 ms} and the trace holds 5 records, seq 1..5
C21_OneRecordPerTransition ==
    /\ \A event \in FSMEvent :
         \A event_data \in ScenarioData(ctx, event), env \in PortsAsked(ctx, event) :
            LET w == transition(World, event, event_data, env, now)
            IN  IF w.result.kind = "returned"
                THEN /\ Len(w.file) = Len(trace_file) + 1
                     /\ w.file[Len(w.file)].seq = Len(trace_file) + 1
                     /\ w.file[Len(w.file)].state_from = ctx.state
                     /\ w.file[Len(w.file)].state_to = w.ctx.state
                ELSE w.file = trace_file
    /\ (/\ Len(trace_file) = 5
        /\ [n \in 1..5 |-> trace_file[n].state_to]
             = <<"INITIALIZED", "ARMED", "EMIT_READY", "EMITTING", "EMIT_READY">>
        /\ trace_file[4].event_data = Some(EmitRequest(100, 10, 100, 10))
        /\ result.event = "EMIT_COMPLETE")
          => /\ ctx.state = "EMIT_READY"
             /\ Val(ctx.budget).remaining_emit_ms = 900
             /\ Val(ctx.budget).remaining_duty_percent = 90
             /\ Val(ctx.budget).cooldown_remaining_ms = 0
             /\ [n \in 1..5 |-> trace_file[n].seq] = <<1, 2, 3, 4, 5>>

\* the happy path has been run
C21_Witness ==
    /\ Len(trace_file) = 5
    /\ [n \in 1..5 |-> trace_file[n].state_to]
         = <<"INITIALIZED", "ARMED", "EMIT_READY", "EMITTING", "EMIT_READY">>
    /\ trace_file[4].event_data = Some(EmitRequest(100, 10, 100, 10))
    /\ result = Returned("EMIT_COMPLETE", "Transitioned")

\* C22: when two callers invoke FSM.transition concurrently, the resulting state,
\* budget and trace are those of running the two calls one after the other in
\* one of the two orders
C22_ConcurrentCallsSerialize ==
    (\A th \in Threads : frames[th].pc = "returned") =>
        LET first == CHOOSE th \in Threads : frames[th].first
            a == frames[first]
            b == frames[OtherThread(first)]
        IN  Outcome(World) \in {Outcome(Serialized(a.began, a, b)),
                                Outcome(Serialized(a.began, b, a))}

\* C23: a status read made while one transition is in progress sees the state,
\* budget, arming window and hashes the context had before the transition
\* started or has after it finished
C23_ReaderSeesNoTornState ==
    \A th \in Threads :
        (/\ frames[th].pc \in {"guarded", "state_set", "effects_done"}
         /\ frames[OtherThread(th)].pc = "idle")
          => LET frame == frames[th]
                 finished == transition(frame.began, frame.event, frame.event_data,
                                        frame.env, 0)
             IN  Snapshot(ctx) \in {Snapshot(frame.began.ctx), Snapshot(finished.ctx)}

\* C24: evaluating any guard of the transition table on the session context, at
\* the current time, leaves every field of the context as it was (the budget's
\* cooldown_remaining_ms included)
C24_GuardsLeaveContextUnchanged ==
    \A key \in DOMAIN TRANSITION_TABLE :
        \A i \in DOMAIN TRANSITION_TABLE[key].preds :
            AfterGuards(<<TRANSITION_TABLE[key].preds[i]>>, ctx, now) = ctx

C27_ShutdownWritesManifest ==
    [][(~app_state.shut_down /\ app_state'.shut_down /\ ctx # None)
         => /\ app_state'.manifest # None
            /\ Val(app_state'.manifest).state = ctx.state
            /\ Val(app_state'.manifest).config_hash = ctx.config_hash
            /\ Val(app_state'.manifest).cal_hash = ctx.cal_hash
            /\ Val(app_state'.manifest).budget_final # None =>
                  /\ ctx.budget # None
                  /\ Val(Val(app_state'.manifest).budget_final).remaining_emit_ms
                        = Val(ctx.budget).remaining_emit_ms
            /\ Val(app_state'.manifest).root_hash
                  = get_root_hash(Val(writer),
                                  [session_id |-> ctx.session_id,
                                   state |-> ctx.state,
                                   config_hash |-> ctx.config_hash,
                                   cal_hash |-> ctx.cal_hash,
                                   simulation_mode |-> ctx.simulation_mode,
                                   fault_reason |-> ctx.fault_reason])]_vars

\* C28: after an emission has ended at time t, once STOP events have brought the
\* session from EMIT_READY back to INITIALIZED, an ARM issued before
\* t + safety.cooldown_time fails check_cooldown_satisfied and the state becomes
\* FAULT instead of ARMED
C28_ArmDuringCooldownFaults ==
    (/\ ctx.state = "EMIT_READY"
     /\ ctx.config # None
     /\ "safety" \in DOMAIN Val(ctx.config)
     /\ Val(ctx.config).safety # None
     /\ "cooldown_time" \in DOMAIN SafetySection(Val(ctx.config))
     /\ ctx.budget # None
     /\ Val(ctx.budget).last_emit_end_time # None)
      => \A arm_time \in {t \in Instants : t >= now} :
            LET emit_end == Val(Val(ctx.budget).last_emit_end_time)
                cooldown_ms == SafetySection(Val(ctx.config)).cooldown_time * 1000
                armed_down == transition(World, "STOP", <<>>, AllSafe, now)
                initialized == transition(armed_down, "STOP", <<>>, AllSafe, now)
            IN  (/\ initialized.ctx.state = "INITIALIZED"
                 /\ (arm_time - emit_end) * 1000 < cooldown_ms)
                  => \A env \in PortsAsked(initialized.ctx, "ARM") :
                        LET armed == transition(initialized, "ARM", <<>>, env, arm_time)
                        IN  /\ armed.ctx.state = "FAULT"
                            /\ armed.ctx.state # "ARMED"

\* C29: a transition diverted to FAULT because a guard failed runs none of the
\* side effects of the edge's target: remaining_emit_ms, remaining_duty_percent,
\* last_emit_end_time and arming_window_start are after the step what they were
\* before it
C29_GuardFaultLeavesBudget ==
    [][(/\ ctx' # ctx
        /\ ctx'.state = "FAULT"
        /\ result' = Returned("FAULT", "Fault")
        /\ ctx'.fault_reason # None
        /\ Val(ctx'.fault_reason).tag = "Predicate failures")
          => /\ ctx'.arming_window_start = ctx.arming_window_start
             /\ (ctx'.budget = None) <=> (ctx.budget = None)
             /\ ctx.budget # None =>
                  /\ Val(ctx'.budget).remaining_emit_ms = Val(ctx.budget).remaining_emit_ms
                  /\ Val(ctx'.budget).remaining_duty_percent
                        = Val(ctx.budget).remaining_duty_percent
                  /\ Val(ctx'.budget).last_emit_end_time
                        = Val(ctx.budget).last_emit_end_time]_vars

\* an EMIT_REQUEST for 600 ms was diverted to FAULT with 400 ms remaining after
\* an emission, and the 400 ms and the emission's end time are still there
C29_Witness ==
    /\ ctx.state = "FAULT"
    /\ result = Returned("FAULT", "Fault")
    /\ ctx.fault_reason = Some([tag |-> "Predicate failures",
                                names |-> <<"check_budget_available">>])
    /\ ctx.budget # None
    /\ Val(ctx.budget).remaining_emit_ms = 400
    /\ Val(ctx.budget).remaining_duty_percent = 50
    /\ Val(ctx.budget).last_emit_end_time # None

\* C30: STOP in EMITTING moves the state to EMIT_READY, leaves last_emit_end_time
\* as it was and leaves remaining_emit_ms and remaining_duty_percent at their
\* debited values; no step other than an EMIT_COMPLETE stamps last_emit_end_time
C30_StopInEmittingNoStamp ==
    [][/\ (ctx.state = "EMITTING" /\ result'.kind = "returned" /\ result'.event = "STOP")
            => /\ ctx'.state = "EMIT_READY"
               /\ (ctx'.budget = None) <=> (ctx.budget = None)
               /\ ctx.budget # None =>
                    /\ Val(ctx'.budget).last_emit_end_time
                          = Val(ctx.budget).last_emit_end_time
                    /\ Val(ctx'.budget).remaining_emit_ms
                          = Val(ctx.budget).remaining_emit_ms
                    /\ Val(ctx'.budget).remaining_duty_percent
                          = Val(ctx.budget).remaining_duty_percent
       /\ (/\ ctx'.budget # None
           /\ Val(ctx'.budget).last_emit_end_time # None
           /\ \/ ctx.budget = None
              \/ Val(ctx'.budget).last_emit_end_time # Val(ctx.budget).last_emit_end_time)
            => /\ result' = Returned("EMIT_COMPLETE", "Transitioned")
               /\ ctx.state = "EMITTING"]_vars

\* an emission of 400 ms was stopped: the state is EMIT_READY, the budget is still
\* debited and no end of emission is recorded
C30_Witness ==
    /\ ctx.state = "EMIT_READY"
    /\ result = Returned("STOP", "Transitioned")
    /\ ctx.budget # None
    /\ Val(ctx.budget).remaining_emit_ms = 600
    /\ Val(ctx.budget).remaining_duty_percent = 60
    /\ Val(ctx.budget).last_emit_end_time = None

\* C31: from each of EMITTING, EMIT_READY, ARMED and INITIALIZED a STOP is
\* accepted, does not end in FAULT and moves one level down; repeated, it reaches
\* SAFE within four events from any state but FAULT; in SAFE it is refused as
\* illegal
C31_StopDescends ==
    LET below == [state \in {"EMITTING", "EMIT_READY", "ARMED", "INITIALIZED"} |->
                    CASE state = "EMITTING" -> "EMIT_READY"
                      [] state = "EMIT_READY" -> "ARMED"
                      [] state = "ARMED" -> "INITIALIZED"
                      [] state = "INITIALIZED" -> "SAFE"]
        stop(w) == IF w.ctx.state = "SAFE" THEN w
                   ELSE transition(w, "STOP", <<>>, AllSafe, now)
    IN  \A env \in PortsAsked(ctx, "STOP") :
           LET stopped == transition(World, "STOP", <<>>, env, now)
           IN  /\ ctx.state \in DOMAIN below =>
                    /\ stopped.result = Returned("STOP", "Transitioned")
                    /\ stopped.ctx.state = below[ctx.state]
               /\ ctx.state = "SAFE" =>
                    /\ stopped.result.kind = "FSMError"
                    /\ stopped.ctx = ctx
                    /\ stopped.file = trace_file
               /\ ctx.state # "FAULT" =>
                    stop(stop(stop(stop(World)))).ctx.state = "SAFE"

\* a STOP stepped the session down from INITIALIZED, where it had a budget
C31_Witness ==
    /\ ctx.state = "SAFE"
    /\ result = Returned("STOP", "Transitioned")
    /\ ctx.budget # None

\* C32: in ARMED the arming window is set, to the instant of the most recent
\* entry into ARMED (by ARM or by STOP from EMIT_READY); in EMIT_READY and in
\* EMITTING it is unset
C32_ArmingWindowFollowsState ==
    /\ [](/\ ctx.state = "ARMED" => ctx.arming_window_start # None
          /\ ctx.state \in {"EMIT_READY", "EMITTING"} => ctx.arming_window_start = None)
    /\ [][ctx'.state = "ARMED" =>
            IF ctx.state = "ARMED"
            THEN ctx'.arming_window_start = ctx.arming_window_start
            ELSE /\ ctx'.arming_window_start = Some(now)
                 /\ result'.event \in {"ARM", "STOP"}]_vars

\* ARMED was re-entered by a STOP from EMIT_READY after the clock had advanced,
\* and the window was restarted at that instant
C32_Witness ==
    /\ ctx.state = "ARMED"
    /\ result = Returned("STOP", "Transitioned")
    /\ now > 0
    /\ ctx.arming_window_start = Some(now)

\* C33: every trace record whose state_to is FAULT has event_type FAULT and
\* carries the fault reason, whether a guard failed or a FAULT event was
\* injected; the record of every other transition has event_type
\* STATE_TRANSITION
C33_FaultRecordsTyped ==
    \A n \in DOMAIN trace_file :
        LET record == trace_file[n]
        IN  IF record.state_to = "FAULT"
            THEN /\ record.event_type = "FAULT"
                 /\ "fault_reason" \in DOMAIN record
            ELSE record.event_type = "STATE_TRANSITION"


\* C34: a TraceWriter opened on an existing trace file continues the chain, also
\* after a torn last line: the records the reader loads are numbered 1, 2, ...
\* without a gap, they verify as one chain, and the writer stands at the last of
\* them, so that every record written so far reads back
C34_ResumedWriterContinuesChain ==
    LET records == _load_records(trace_file)
        chain == verify_chain(records)
    IN  /\ chain.kind = "returned" /\ chain.is_valid
        /\ \A n \in DOMAIN records :
             /\ records[n].seq = n
             /\ records[n].prev_hash = IF n = 1 THEN ZeroHash ELSE records[n - 1].hash
        /\ Val(writer).sequence = Len(records)
        /\ Val(writer).prev_hash = IF records = <<>> THEN None
                                   ELSE Some(records[Len(records)].hash)


\* GET /api/status once the FSM exists: the SessionStatusEnvelope built from the
\* fields of the context as they are stored
get_status(c) ==
    [state |-> c.state,
     budget |-> IF c.budget # None
                THEN [remaining_emit_ms |-> Val(c.budget).remaining_emit_ms,
                      remaining_duty_percent |-> Val(c.budget).remaining_duty_percent,
                      cooldown_remaining_ms |-> Val(c.budget).cooldown_remaining_ms]
                ELSE [remaining_emit_ms |-> 0, remaining_duty_percent |-> 0,
                      cooldown_remaining_ms |-> 0],
     config_hash |-> c.config_hash,
     cal_hash |-> c.cal_hash]

\* C35: at every time now the cooldown_remaining_ms of a status query is
\* max(0, cooldown_time_ms - (now - last_emit_end)), and 0 while no emission has
\* ended; so it is positive right after an EMIT_COMPLETE with cooldown_time > 0
C35_StatusCooldownFollowsClock ==
    (ctx.budget # None /\ ~check_cooldown_raises(ctx)) =>
        get_status(ctx).budget.cooldown_remaining_ms =
            IF Val(ctx.budget).last_emit_end_time = None
            THEN 0
            ELSE Max(0, cooldown_time_ms(ctx)
                        - (now - Val(Val(ctx.budget).last_emit_end_time)) * 1000)


\* C36: fault_reason keeps the value captured on entry to FAULT while the state
\* is FAULT and is cleared when the RESET edge fires: it is unset in every
\* state other than FAULT
C36_FaultReasonClearedOnReset ==
    /\ [](ctx.state # "FAULT" => ctx.fault_reason = None)
    /\ [][(ctx.state = "FAULT" /\ ctx'.state = "FAULT")
            => ctx'.fault_reason = ctx.fault_reason]_vars


\* C37: for every EMIT_REQUEST that enters EMITTING, the amounts debited
\* (emit_duration_ms, duty_percent) are the amounts check_budget_available was
\* given (required_emit_ms, required_duty_percent): the debit is within what
\* remained and remaining_emit_ms goes down by the requested duration, unclamped
C37_DebitIsWhatTheGuardChecked ==
    \A event_data \in RequestData :
        LET w == transition(World, "EMIT_REQUEST", event_data, AllSafe, now)
            emit_duration_ms == Get(event_data, "emit_duration_ms", 0)
            duty_percent == Get(event_data, "duty_percent", 0)
        IN  (/\ ctx.state = "EMIT_READY"
             /\ ctx.budget # None
             /\ w.ctx.state = "EMITTING"
             /\ emit_duration_ms >= 0
             /\ duty_percent >= 0) =>
                /\ emit_duration_ms = Get(event_data, "required_emit_ms", 0)
                /\ duty_percent = Get(event_data, "required_duty_percent", 0)
                /\ emit_duration_ms <= Val(ctx.budget).remaining_emit_ms
                /\ duty_percent <= Val(ctx.budget).remaining_duty_percent
                /\ Val(w.ctx.budget).remaining_emit_ms =
                       Val(ctx.budget).remaining_emit_ms - emit_duration_ms


\* C38: the trace records of a session form one contiguous path of the FSM: the
\* first record leaves SAFE, each record leaves the state the record before it
\* entered, and the last record enters the current state, also when the side
\* effects of a transition raise and the transition becomes a fault
C38_TraceIsOnePath ==
    writer # None =>
        /\ trace_file = <<>> => ctx.state = "SAFE"
        /\ \A n \in DOMAIN trace_file :
             /\ trace_file[n].state_from =
                    IF n = 1 THEN "SAFE" ELSE trace_file[n - 1].state_to
             /\ n = Len(trace_file) => trace_file[n].state_to = ctx.state


\* C39: in every state reached from SAFE by FSM.transition alone, a state of
\* INITIALIZED, ARMED, EMIT_READY or EMITTING has config_hash and cal_hash
\* bound, a config with the hardware and safety sections, a calibration of at
\* least two points, and an initialized budget
C39_OperatingStatesAreBound ==
    ctx.state \in {"INITIALIZED", "ARMED", "EMIT_READY", "EMITTING"} =>
        /\ ctx.config_hash # None
        /\ ctx.cal_hash # None
        /\ ctx.config # None
        /\ {"hardware", "safety"} \subseteq DOMAIN Val(ctx.config)
        /\ ctx.calibration # None
        /\ Len(Get(Val(ctx.calibration), "points", <<>>)) >= 2
        /\ ctx.budget # None

\* INITIALIZED entered again by STOP from ARMED
C39_Witness ==
    /\ ctx.state = "INITIALIZED"
    /\ result = Returned("STOP", "Transitioned")
    /\ ctx.budget # None
    /\ ctx.config_hash # None


\* trace.jsonl after an editor deleted the lines of the records at the
\* positions in removed, as TraceReader loads it
RECURSIVE RemoveRecords(_, _)
RemoveRecords(records, removed) ==
    IF records = <<>>
    THEN <<>>
    ELSE LET rest == RemoveRecords(SubSeq(records, 1, Len(records) - 1), removed)
         IN  IF Len(records) \in removed
             THEN rest
             ELSE Append(rest, records[Len(records)])

\* C40: verify_chain returns is_valid = False for a trace from which one or more
\* whole records were removed, at the start of the chain, in the middle or at
\* the end
C40_RemovedRecordsAreDetected ==
    \A removed \in SUBSET DOMAIN trace_file :
        (removed # {} /\ removed # DOMAIN trace_file) =>
            ~verify_chain(RemoveRecords(trace_file, removed)).is_valid

====
